---- MODULE Spec2Model ----
(***************************************************************************)
(* IronBee: the Traffic Server body filter (ts_filter.c) and the rules     *)
(* module (rules.c), as state machines.                                    *)
(*                                                                         *)
(* Spec      the body filter of one direction of one transaction           *)
(* SpecLua   threads evaluating script rules through the engine-wide lock  *)
(* SpecRule  the Rule and RuleExt directive handlers                       *)
(* SpecBufferInit  buffer_init applied to every configuration and flag set *)
(* SpecSched Rule directives, then the phases of one transaction           *)
(* SpecFlush flush_data applied to every context and argument              *)
(* SpecPredicate  the setName calls of test_standard_valuelist.cpp         *)
(* SpecLuaFair  SpecLua, a thread inside the critical section going on     *)
(* SpecLife  module init, module fini, lock use and process exit           *)
(* SpecNotify  the write-complete events of the two directions             *)
(***************************************************************************)
EXTENDS Integers, Sequences, FiniteSets, TLC

(***************************************************************************)
(* Bounds of the model.                                                    *)
(***************************************************************************)
\* longest body, in bytes
MaxLen == 3
\* most input blocks the host hands over in one data event
MaxBlocks == 1
\* most edits the engine adds during one transaction
MaxEdits == 2
\* most bytes one edit deletes
MaxDel == 2
\* longest replacement string of an edit
MaxRepl == 1
\* largest configured body buffer limit
MaxLimit == 1
\* threads evaluating script rules at the same time
NThreads == 2
\* most script evaluations one thread starts
MaxEvals == 2
\* most modifiers on one directive
MaxMods == 2
\* most directives the configuration holds
MaxDirectives == 1

VARIABLES
    \* ---- body filter (ts_filter.c) ----
    fctx,       \* tsib_filter_ctx of the direction
    dir,        \* ibd->ibd->dir
    status,     \* txndata->status
    in_buf,     \* TSVIOBufferGet(input_vio): "live" or "null"
    in_nbytes,  \* nbytes of the input VIO: the length of the body
    in_ndone,   \* ndone of the input VIO
    upstream,   \* last event sent to the input VIO's continuation
    ev,         \* path the last data event took through the handler
    errlog,     \* ib_log_error_tx entries written by the last data event
    chunk,      \* the last buffer_data_chunk call: arguments, state before, result
    fault,      \* TRUE: flush_data never returned
    added,      \* every edit added so far, in order of addition
    early,      \* every edit was added with start >= bytes_done
    discarded,  \* the filter has dropped input in mode discard
    final_rc,   \* what flush_data(fctx, -1, 1) returned in the last data event
    \* ---- script rules (rules.c) ----
    g_lua_lock, \* holder of g_lua_lock, or NoThread
    pc,         \* position of each thread in ib_lua_func_eval_r
    L,          \* the lua_State* local of each thread
    lua_threads,\* per-invocation contexts alive under the root context
    evals,      \* evaluations each thread has started
    eval_rc,    \* status the last evaluation of each thread returned
    called,     \* the last evaluation of each thread called the function
    result,     \* *result of the evaluation of each thread: Unset until written
    unlock_rc,  \* what ib_lock_unlock returned to each thread since it took the lock
    \* ---- directives (rules.c) ----
    rule_lists, \* per phase, the rules registered, in order
    op_registry,\* names in the operator registry
    lua_funcs,  \* functions loaded into the root script context
    last_dir,   \* the last directive handled and what became of it
    ndirectives,\* directives handled so far
    reg_order,  \* ids of the rules registered, in order of registration
    \* ---- phase scheduler ----
    tx_phase,   \* the last phase the host signalled for the transaction
    fired,      \* the rules fired for the transaction, in order
    \* ---- buffer_init on its own (ts_filter.c) ----
    binit,      \* the buffer_init call made: what it read and what it selected
    \* ---- flush_data on its own (ts_filter.c) ----
    flush,      \* the flush_data call made: context before, arguments, result
    \* ---- predicate expressions (test_standard_valuelist.cpp) ----
    sexpr,      \* the arguments of the setName call under evaluation
    outcome,    \* what its evaluation gave: "none" before, a value or "einval"
    \* ---- life of the script lock (rules.c) ----
    life,       \* g_lua_lock and the module: created, destroyed, registered
    \* ---- end of the transaction (ts_filter.c) ----
    txn         \* the transaction's flags, both directions, notifications issued

filter_vars == <<fctx, dir, status, in_buf, in_nbytes, in_ndone,
                 upstream, ev, errlog, chunk, fault, added, early, discarded,
                 final_rc>>
lua_vars == <<g_lua_lock, pc, L, lua_threads, evals, eval_rc, called, result,
              unlock_rc>>
rule_vars == <<rule_lists, op_registry, lua_funcs, last_dir, ndirectives, reg_order>>
init_vars == <<binit>>
sched_vars == <<tx_phase, fired>>
flush_vars == <<flush>>
pred_vars == <<sexpr, outcome>>
life_vars == <<life>>
note_vars == <<txn>>
vars == <<filter_vars, lua_vars, rule_vars, init_vars, sched_vars, flush_vars, pred_vars,
          life_vars, note_vars>>

Min(a, b) == IF a < b THEN a ELSE b

Range(s) == {s[i] : i \in 1..Len(s)}

RECURSIVE SumSeq(_)
SumSeq(s) == IF s = <<>> THEN 0 ELSE Head(s) + SumSeq(Tail(s))

\* the sequences over S of length 0..n
SeqsUpTo(S, n) == UNION {[1..k -> S] : k \in 0..n}

(***************************************************************************)
(* ts_filter.c: flush_data                                                 *)
(***************************************************************************)
IB_OK == "IB_OK"
IB_EAGAIN == "IB_EAGAIN"
IB_EBADVAL == "IB_EBADVAL"
IB_EINVAL == "IB_EINVAL"
IB_EALLOC == "IB_EALLOC"
IB_EUNKNOWN == "IB_EUNKNOWN"

IOBUF_NOBUF == "IOBUF_NOBUF"
IOBUF_DISCARD == "IOBUF_DISCARD"
IOBUF_BUFFER_ALL == "IOBUF_BUFFER_ALL"
IOBUF_BUFFER_FLUSHALL == "IOBUF_BUFFER_FLUSHALL"
IOBUF_BUFFER_FLUSHPART == "IOBUF_BUFFER_FLUSHPART"

\* The body: the byte at stream offset p is the number p + 1.
Body(n) == [i \in 1..n |-> i]

\* Replacement strings are made of negative numbers, so that they differ from
\* every byte of the body; the k-th edit added is given the byte -k, so that
\* the replacements of two edits differ.
Repl(k, len) == [i \in 1..len |-> 0 - k]

\* edit_t: start, bytes (deleted), repl (repl_len is Len(repl)); the edits the
\* engine may add as its k-th
Edits(k) == {[start |-> st, bytes |-> b, repl |-> Repl(k, l)] :
                st \in 0..MaxLen, b \in 0..MaxDel, l \in 0..MaxRepl}

qcompare_asc(a, b) == a.start - b.start

\* qcompare: the difference of the start offsets, reversed
qcompare(a, b) == b.start - a.start

\* qsort(edits, qcompare): qsort is not stable, so any arrangement that
\* qcompare orders is a possible result.
Qsort(edits) ==
    LET n == Len(edits)
        perms == {p \in [1..n -> 1..n] : \A i, j \in 1..n : i # j => p[i] # p[j]}
        arr(p) == [i \in 1..n |-> edits[p[i]]]
    IN {arr(p) : p \in {q \in perms :
            \A i, j \in 1..n : i < j => qcompare(edits[q[i]], edits[q[j]]) <= 0}}

\* TSIOBufferCopy(output_buffer, reader, want, 0) in the loops of flush_data,
\* with TSIOBufferReaderConsume and the counters: copies what the reader has,
\* at most want; a copy of 0 bytes fails the assertion n > 0 (with assertions
\* compiled out the loop never ends): flush_data does not return.
CopyLoopNoCount(s, want) ==
    LET n == Min(want, Len(s.reader))
    IN [s EXCEPT !.output_buffer = s.output_buffer \o SubSeq(s.reader, 1, n),
                 !.reader = SubSeq(s.reader, n + 1, Len(s.reader)),
                 !.bytes_done = s.bytes_done + n,
                 !.nbytes = s.nbytes - n,
                 !.fault = s.fault \/ n < want]

CopyLoop(s, want) ==
    LET n == Min(want, Len(s.reader))
    IN [s EXCEPT !.output_buffer = s.output_buffer \o SubSeq(s.reader, 1, n),
                 !.reader = SubSeq(s.reader, n + 1, Len(s.reader)),
                 !.buffered = s.buffered - n,
                 !.bytes_done = s.bytes_done + n,
                 !.nbytes = s.nbytes - n,
                 !.fault = s.fault \/ n < want]

ApplyEditNoOffs(s, edit) ==
    LET c == CopyLoop(s, edit.start - s.bytes_done)
    IN IF c.fault THEN c
       ELSE [c EXCEPT !.reader = SubSeq(c.reader, edit.bytes + 1, Len(c.reader)),
                      !.nbytes = c.nbytes - edit.bytes,
                      !.buffered = c.buffered - edit.bytes,
                      !.bytes_done = c.bytes_done + edit.bytes,
                      !.output_buffer = c.output_buffer \o edit.repl,
                      !.applied = c.applied \o <<edit>>,
                      !.edits = SubSeq(c.edits, 1, Len(c.edits) - 1)]

ApplyEditNoAdvance(s, edit) ==
    LET c == CopyLoop(s, edit.start - s.bytes_done)
    IN IF c.fault THEN c
       ELSE [c EXCEPT !.reader = SubSeq(c.reader, edit.bytes + 1, Len(c.reader)),
                      !.nbytes = c.nbytes - edit.bytes,
                      !.buffered = c.buffered - edit.bytes,
                      !.output_buffer = c.output_buffer \o edit.repl,
                      !.offs = c.offs + Len(edit.repl) - edit.bytes,
                      !.applied = c.applied \o <<edit>>,
                      !.edits = SubSeq(c.edits, 1, Len(c.edits) - 1)]

\* lines 131-157: the edit is in range: copy up to its start, drop what it
\* deletes, write its replacement
ApplyEdit(s, edit) ==
    LET c == CopyLoop(s, edit.start - s.bytes_done)
    IN IF c.fault THEN c
       ELSE [c EXCEPT !.reader = SubSeq(c.reader, edit.bytes + 1, Len(c.reader)),
                      !.nbytes = c.nbytes - edit.bytes,
                      !.buffered = c.buffered - edit.bytes,
                      !.bytes_done = c.bytes_done + edit.bytes,
                      !.output_buffer = c.output_buffer \o edit.repl,
                      !.offs = c.offs + Len(edit.repl) - edit.bytes,
                      !.applied = c.applied \o <<edit>>,
                      !.edits = SubSeq(c.edits, 1, Len(c.edits) - 1)]

EditBeyondClip(s, edit, last) ==
    [s EXCEPT !.nbytes = edit.start - s.bytes_done, !.rc = IB_EAGAIN, !.brk = TRUE]

\* lines 119-128: the edit reaches beyond bytes_done + nbytes
EditBeyond(s, edit, last) ==
    IF ~last
    THEN [s EXCEPT !.nbytes = edit.start - s.bytes_done, !.rc = IB_EAGAIN, !.brk = TRUE]
    ELSE [s EXCEPT !.edits = SubSeq(s.edits, 1, Len(s.edits) - 1), !.rc = IB_EBADVAL,
                   !.dropped = s.dropped \o <<edit>>]

\* lines 92-158: the loop over the sorted edits, from the end of the array
RECURSIVE EditLoop(_, _)
EditLoop(s, last) ==
    IF s.edits = <<>> \/ s.brk \/ s.fault THEN s
    ELSE LET edit == s.edits[Len(s.edits)]
         IN IF edit.start < s.bytes_done
            THEN EditLoop([s EXCEPT !.rc = IB_EBADVAL,
                                    !.edits = SubSeq(s.edits, 1, Len(s.edits) - 1),
                                    !.dropped = s.dropped \o <<edit>>], last)
            ELSE IF edit.start + edit.bytes > s.bytes_done + s.nbytes
            THEN EditLoop(EditBeyond(s, edit, last), last)
            ELSE EditLoop(ApplyEdit(s, edit), last)

SetFinalSizeNoOffs(s, last) ==
    IF last /\ ~s.fault
    THEN [s EXCEPT !.output_vio = [nbytes |-> s.bytes_done, final |-> TRUE]]
    ELSE s

\* lines 172-177: TSVIONBytesSet on the last flush
SetFinalSize(s, last) ==
    IF last /\ ~s.fault
    THEN [s EXCEPT !.output_vio = [nbytes |-> s.bytes_done + s.offs, final |-> TRUE]]
    ELSE s

\* The locals of one flush_data call beside the filter context: nbytes, rc,
\* whether the loop was left by break, whether the call failed to return, and
\* the edits it dropped. applied is a history of the context: the edits
\* applied so far, in order.
Frame(f, sorted, nbytes) ==
    [buffering |-> f.buffering, buf_limit |-> f.buf_limit, buffered |-> f.buffered,
     bytes_done |-> f.bytes_done, offs |-> f.offs, edits |-> sorted,
     reader |-> f.reader, output_buffer |-> f.output_buffer,
     output_vio |-> f.output_vio, alloc |-> f.alloc,
     nbytes |-> nbytes, rc |-> IB_OK, brk |-> FALSE, fault |-> FALSE,
     applied |-> f.applied, dropped |-> <<>>]

\* the filter context a flush_data call leaves
Ctx(s) ==
    [buffering |-> s.buffering, buf_limit |-> s.buf_limit, buffered |-> s.buffered,
     bytes_done |-> s.bytes_done, offs |-> s.offs, edits |-> s.edits,
     reader |-> s.reader, output_buffer |-> s.output_buffer,
     output_vio |-> s.output_vio, alloc |-> s.alloc, applied |-> s.applied]

FlushSortedNoCopy(f, sorted, nbytes, last) ==
    SetFinalSize(EditLoop(Frame(f, sorted, nbytes), last), last)

\* flush_data once the edits are sorted
FlushSorted(f, sorted, nbytes, last) ==
    LET s0 == Frame(f, sorted, nbytes)
        s1 == EditLoop(s0, last)
        s2 == IF s1.fault \/ s1.nbytes <= 0 THEN s1 ELSE CopyLoop(s1, s1.nbytes)
    IN SetFinalSize(s2, last)

\* flush_data(fctx, nbytes, last): the possible results; nbytes = -1 flushes
\* all that is buffered
flush_data(f, nbytes, last) ==
    LET n == IF nbytes = -1 THEN f.buffered ELSE nbytes
    IN {FlushSorted(f, sorted, n, last) : sorted \in Qsort(f.edits)}

(***************************************************************************)
(* ts_filter.c: buffer_data_chunk                                          *)
(***************************************************************************)
\* a result of buffer_data_chunk: the context, the status, whether a flush
\* failed to return
ChunkResult(f, rc, flt) == [f |-> f, rc |-> rc, fault |-> flt]

\* lines 194-202: mode discard drops what is buffered; the caller drops the chunk
DiscardChunk(f) ==
    IF f.buffered > 0
    THEN [f EXCEPT !.reader = SubSeq(f.reader, f.buffered + 1, Len(f.reader)),
                   !.buffered = 0]
    ELSE f

CopyChunkFront(f, data, nbytes) ==
    LET copied == Min(nbytes, Len(data))
    IN [f EXCEPT !.reader = SubSeq(data, 1, copied) \o f.reader,
                 !.buffered = f.buffered + copied]

\* lines 211-214: TSIOBufferCopy of the chunk into the staging buffer
CopyChunk(f, data, nbytes) ==
    LET copied == Min(nbytes, Len(data))
    IN [f EXCEPT !.reader = f.reader \o SubSeq(data, 1, copied),
                 !.buffered = f.buffered + copied]

FlushAfterCopyNoNobuf(f, rc0) ==
    IF f.buffering = IOBUF_BUFFER_FLUSHPART /\ f.buffered > f.buf_limit
    THEN {ChunkResult(Ctx(s), s.rc, s.fault) :
             s \in flush_data(f, f.buffered - f.buf_limit, FALSE)}
    ELSE {ChunkResult(f, rc0, FALSE)}

FlushAfterCopyAll(f, rc0) ==
    IF f.buffering \in {IOBUF_NOBUF, IOBUF_BUFFER_ALL}
    THEN {ChunkResult(Ctx(s), s.rc, s.fault) : s \in flush_data(f, -1, FALSE)}
    ELSE IF f.buffering = IOBUF_BUFFER_FLUSHPART /\ f.buffered > f.buf_limit
    THEN {ChunkResult(Ctx(s), s.rc, s.fault) :
             s \in flush_data(f, f.buffered - f.buf_limit, FALSE)}
    ELSE {ChunkResult(f, rc0, FALSE)}

FlushAfterCopyPartAll(f, rc0) ==
    IF f.buffering = IOBUF_NOBUF
    THEN {ChunkResult(Ctx(s), s.rc, s.fault) : s \in flush_data(f, -1, FALSE)}
    ELSE IF f.buffering = IOBUF_BUFFER_FLUSHPART /\ f.buffered > f.buf_limit
    THEN {ChunkResult(Ctx(s), s.rc, s.fault) : s \in flush_data(f, -1, FALSE)}
    ELSE {ChunkResult(f, rc0, FALSE)}

\* lines 216-225: the flush after the copy, by mode; rc0 is the status so far
FlushAfterCopy(f, rc0) ==
    IF f.buffering = IOBUF_NOBUF
    THEN {ChunkResult(Ctx(s), s.rc, s.fault) : s \in flush_data(f, -1, FALSE)}
    ELSE IF f.buffering = IOBUF_BUFFER_FLUSHPART /\ f.buffered > f.buf_limit
    THEN {ChunkResult(Ctx(s), s.rc, s.fault) :
             s \in flush_data(f, f.buffered - f.buf_limit, FALSE)}
    ELSE {ChunkResult(f, rc0, FALSE)}

FlushBeforeCopyLimitOnly(f, nbytes) ==
    IF f.buffering = IOBUF_BUFFER_FLUSHALL /\ f.buffered > f.buf_limit
    THEN {ChunkResult(Ctx(s), s.rc, s.fault) : s \in flush_data(f, -1, FALSE)}
    ELSE {ChunkResult(f, IB_OK, FALSE)}

\* lines 205-209: mode flushall flushes all old data first when the chunk
\* would take the buffer over the limit
FlushBeforeCopy(f, nbytes) ==
    IF f.buffering = IOBUF_BUFFER_FLUSHALL /\ f.buffered + nbytes > f.buf_limit
    THEN {ChunkResult(Ctx(s), s.rc, s.fault) : s \in flush_data(f, -1, FALSE)}
    ELSE {ChunkResult(f, IB_OK, FALSE)}

\* buffer_data_chunk(fctx, reader, nbytes): the possible results
buffer_data_chunk(f, data, nbytes) ==
    IF f.buffering = IOBUF_DISCARD
    THEN {ChunkResult(DiscardChunk(f), IB_OK, FALSE)}
    ELSE UNION {IF b.fault THEN {b}
                ELSE FlushAfterCopy(CopyChunk(b.f, data, nbytes), b.rc) :
                b \in FlushBeforeCopy(f, nbytes)}

(***************************************************************************)
(* ts_filter.c: buffer_init                                                *)
(***************************************************************************)
IBD_REQ == "IBD_REQ"
IBD_RESP == "IBD_RESP"
IB_BUFFER_LIMIT_ACTION_FLUSH_ALL == "FLUSH_ALL"
IB_BUFFER_LIMIT_ACTION_FLUSH_PARTIAL == "FLUSH_PARTIAL"
IB_TX_FALLOW_ALL == "IB_TX_FALLOW_ALL"
IB_TX_FALLOW_REQUEST == "IB_TX_FALLOW_REQUEST"
IB_TX_FINSPECT_REQHDR == "IB_TX_FINSPECT_REQHDR"
IB_TX_FINSPECT_REQBODY == "IB_TX_FINSPECT_REQBODY"
IB_TX_FINSPECT_RESHDR == "IB_TX_FINSPECT_RESHDR"
IB_TX_FINSPECT_RESBODY == "IB_TX_FINSPECT_RESBODY"

ib_flags_any(flags, mask) == flags \cap mask # {}
ib_flags_all(flags, mask) == mask \subseteq flags

\* (size_t) x: x modulo the range of size_t; the model's size_t is 20 bits
\* wide, which is wider than any body or limit of the model
SizeRange == 1048576
ToSizeT(x) == x % SizeRange

\* lines 255-261 and 265-271: the mode the configuration of one direction asks for
ConfigMode(buffer_on, limit, action) ==
    IF buffer_on = 0 THEN IOBUF_NOBUF
    ELSE IF limit < 0 THEN IOBUF_BUFFER_ALL
    ELSE IF action = IB_BUFFER_LIMIT_ACTION_FLUSH_ALL THEN IOBUF_BUFFER_FLUSHALL
    ELSE IOBUF_BUFFER_FLUSHPART

ReadConfigReqOnly(f, d, cfg, cfg_rc) ==
    IF cfg_rc # IB_OK THEN f
    ELSE [f EXCEPT !.buffering = ConfigMode(cfg.buffer_req,
                                            cfg.request_body_buffer_limit,
                                            cfg.request_body_buffer_limit_action),
                   !.buf_limit = ToSizeT(cfg.request_body_buffer_limit)]

\* lines 249-274: read the configuration of the direction; a failing
\* ib_core_context_config leaves the context as it was
ReadConfig(f, d, cfg, cfg_rc) ==
    IF cfg_rc # IB_OK THEN f
    ELSE IF d = IBD_REQ
    THEN [f EXCEPT !.buffering = ConfigMode(cfg.buffer_req,
                                            cfg.request_body_buffer_limit,
                                            cfg.request_body_buffer_limit_action),
                   !.buf_limit = ToSizeT(cfg.request_body_buffer_limit)]
    ELSE [f EXCEPT !.buffering = ConfigMode(cfg.buffer_res,
                                            cfg.response_body_buffer_limit,
                                            cfg.response_body_buffer_limit_action),
                   !.buf_limit = ToSizeT(cfg.response_body_buffer_limit)]

OverrideReqOnly(f, d, flags) ==
    IF f.buffering = IOBUF_NOBUF THEN f
    ELSE IF d = IBD_REQ
    THEN IF ib_flags_any(flags, {IB_TX_FALLOW_ALL, IB_TX_FALLOW_REQUEST})
            \/ (~ib_flags_all(flags, {IB_TX_FINSPECT_REQBODY})
                /\ ~ib_flags_all(flags, {IB_TX_FINSPECT_REQHDR}))
         THEN [f EXCEPT !.buffering = IOBUF_NOBUF]
         ELSE f
    ELSE f

\* lines 276-297: the tx flags switch buffering off
Override(f, d, flags) ==
    IF f.buffering = IOBUF_NOBUF THEN f
    ELSE IF d = IBD_REQ
    THEN IF ib_flags_any(flags, {IB_TX_FALLOW_ALL, IB_TX_FALLOW_REQUEST})
            \/ (~ib_flags_all(flags, {IB_TX_FINSPECT_REQBODY})
                /\ ~ib_flags_all(flags, {IB_TX_FINSPECT_REQHDR}))
         THEN [f EXCEPT !.buffering = IOBUF_NOBUF]
         ELSE f
    ELSE IF d = IBD_RESP
    THEN IF ib_flags_any(flags, {IB_TX_FALLOW_ALL})
            \/ (~ib_flags_all(flags, {IB_TX_FINSPECT_RESBODY})
                /\ ~ib_flags_all(flags, {IB_TX_FINSPECT_RESHDR}))
         THEN [f EXCEPT !.buffering = IOBUF_NOBUF]
         ELSE f
    ELSE f

\* buffer_init(ibd, tx), tx not NULL (in_data_event and out_data_event return
\* before data_event when it is)
buffer_init(f, d, cfg, cfg_rc, flags) == Override(ReadConfig(f, d, cfg, cfg_rc), d, flags)

(***************************************************************************)
(* ts_filter.c: process_data and data_event                                *)
(***************************************************************************)
\* HTTP_CODE(status): the status is that of an HTTP response
HTTP_CODE(st) == st >= 200 /\ st < 600

NoChunk == [n |-> 0, ndone |-> 0, pending |-> 0, rc |-> IB_OK,
            before |-> [buffered |-> 0, bytes_done |-> 0],
            after |-> [buffered |-> 0, bytes_done |-> 0]]

\* what one notification of the engine does: the edits its rule actions add,
\* and its status
Notifs(k) ==
    {[edits |-> <<>>, rc |-> rc] : rc \in {IB_OK, IB_EUNKNOWN}}
    \cup (IF k < MaxEdits THEN {[edits |-> <<e>>, rc |-> IB_OK] : e \in Edits(k + 1)}
          ELSE {})

\* ib_notify_body: rule actions append their edits to the edit list
Notify(f, nt) == [f EXCEPT !.edits = f.edits \o nt.edits]

\* lines 425-435: the log entry for the status of buffer_data_chunk
ChunkLog(rc) ==
    IF rc \in {IB_EAGAIN, IB_OK} THEN <<>>
    ELSE IF rc = IB_EBADVAL THEN <<"Bad/Inconsistent stream edit(s) ignored.">>
    ELSE <<"Unhandled return value">>

OnBlockBufferFirst(w, n, nt) ==
    LET log1 == IF nt.rc # IB_OK THEN w.errlog \o <<"Error notifying body data.">>
                ELSE w.errlog
        data == SubSeq(Body(in_nbytes), w.ndone + 1, w.ndone + n)
    IN {[w EXCEPT !.f = Notify(r.f, nt),
                  !.fault = r.fault,
                  !.errlog = IF r.fault THEN log1 ELSE log1 \o ChunkLog(r.rc),
                  !.ndone = IF r.fault THEN w.ndone ELSE w.ndone + n,
                  !.added = w.added \o nt.edits,
                  !.early = w.early /\ \A i \in 1..Len(nt.edits) :
                                          nt.edits[i].start >= w.f.bytes_done,
                  !.discarded = w.discarded \/ w.f.buffering = IOBUF_DISCARD,
                  !.chunk = [n |-> n, ndone |-> w.ndone,
                             pending |-> Len(w.f.edits), rc |-> r.rc,
                             before |-> [buffered |-> w.f.buffered,
                                         bytes_done |-> w.f.bytes_done],
                             after |-> [buffered |-> r.f.buffered,
                                        bytes_done |-> r.f.bytes_done]]] :
        r \in buffer_data_chunk(w.f, data, n)}

\* lines 418-437: one input block of n bytes: notify, buffer, consume
OnBlock(w, n, nt) ==
    LET f1 == Notify(w.f, nt)
        log1 == IF nt.rc # IB_OK THEN w.errlog \o <<"Error notifying body data.">>
                ELSE w.errlog
        data == SubSeq(Body(in_nbytes), w.ndone + 1, w.ndone + n)
    IN {[w EXCEPT !.f = r.f,
                  !.fault = r.fault,
                  !.errlog = IF r.fault THEN log1 ELSE log1 \o ChunkLog(r.rc),
                  !.ndone = IF r.fault THEN w.ndone ELSE w.ndone + n,
                  !.added = w.added \o nt.edits,
                  !.early = w.early /\ \A i \in 1..Len(nt.edits) :
                                          nt.edits[i].start >= w.f.bytes_done,
                  !.discarded = w.discarded \/ f1.buffering = IOBUF_DISCARD,
                  !.chunk = [n |-> n, ndone |-> w.ndone,
                             pending |-> Len(f1.edits), rc |-> r.rc,
                             before |-> [buffered |-> f1.buffered,
                                         bytes_done |-> f1.bytes_done],
                             after |-> [buffered |-> r.f.buffered,
                                        bytes_done |-> r.f.bytes_done]]] :
        r \in buffer_data_chunk(f1, data, n)}

\* lines 417-438: the loop over the blocks of the input reader
RECURSIVE BlockLoop(_, _, _)
BlockLoop(w, blocks, notifs) ==
    IF blocks = <<>> \/ w.fault THEN {w}
    ELSE UNION {BlockLoop(w2, Tail(blocks), Tail(notifs)) :
                   w2 \in OnBlock(w, Head(blocks), Head(notifs))}

\* lines 335-345: the log entry for the status of the final flush at a null input
EosLog(rc) ==
    IF rc = IB_OK THEN <<>>
    ELSE IF rc = IB_EBADVAL THEN <<"Bad/Inconsistent stream edit(s) ignored.">>
    ELSE <<"Unhandled return value">>

\* lines 332-365: the input buffer is NULL
NullInput(w) ==
    IF w.f.alloc
    THEN {[w EXCEPT !.f = Ctx(s), !.fault = s.fault,
                    !.errlog = IF s.fault THEN <<>> ELSE EosLog(s.rc),
                    !.final_rc = IF s.fault THEN "none" ELSE s.rc,
                    !.ev = "null_flush"] : s \in flush_data(w.f, -1, TRUE)}
    ELSE {[w EXCEPT !.f = [w.f EXCEPT !.alloc = TRUE,
                                      !.output_vio = [nbytes |-> 0, final |-> FALSE]],
                    !.errlog = <<>>,
                    !.ev = "null_first"]}

\* lines 368-397: the first call allocates the buffers and picks the mode
FirstTime(f, cfg, cfg_rc, flags) ==
    IF f.alloc THEN f
    ELSE LET g == [f EXCEPT !.alloc = TRUE,
                            !.output_vio = [nbytes |-> in_nbytes, final |-> FALSE]]
         IN IF ~HTTP_CODE(status) THEN buffer_init(g, dir, cfg, cfg_rc, flags)
            ELSE g

\* lines 403-412 and 441-449: nothing is left to do: the final flush, its
\* status dropped, then write-complete upstream
FinalFlush(w, path) ==
    {[w EXCEPT !.f = Ctx(s), !.fault = s.fault,
               !.upstream = IF s.fault THEN w.upstream ELSE "WRITE_COMPLETE",
               !.final_rc = IF s.fault THEN "none" ELSE s.rc,
               !.ev = path] : s \in flush_data(w.f, -1, TRUE)}

AfterLoopNoFlush(w) ==
    IF w.fault THEN {w}
    ELSE IF in_nbytes - w.ndone = 0
    THEN {[w EXCEPT !.upstream = "WRITE_COMPLETE", !.ev = "complete"]}
    ELSE {[w EXCEPT !.upstream = "WRITE_READY", !.ev = "ready"]}

\* lines 440-456: after the loop
AfterLoop(w) ==
    IF w.fault THEN {w}
    ELSE IF in_nbytes - w.ndone = 0 THEN FinalFlush(w, "complete")
    ELSE {[w EXCEPT !.upstream = "WRITE_READY", !.ev = "ready"]}

\* process_data(contp, ibd): the possible outcomes; blocks are the lengths of
\* the blocks in the input reader, notifs what the engine does on each, cfg
\* and cfg_rc what ib_core_context_config returns, flags the tx flags
process_data(w0, blocks, notifs, cfg, cfg_rc, flags) ==
    LET w1 == IF HTTP_CODE(status)
              THEN [w0 EXCEPT !.f = [w0.f EXCEPT !.buffering = IOBUF_DISCARD],
                              !.final_rc = "none"]
              ELSE [w0 EXCEPT !.final_rc = "none"]
    IN IF in_buf = "null" THEN NullInput(w1)
       ELSE LET w2 == [w1 EXCEPT
                          !.f = FirstTime(w1.f, cfg, cfg_rc, flags),
                          !.errlog = IF ~w1.f.alloc /\ ~HTTP_CODE(status) /\ cfg_rc # IB_OK
                                     THEN <<"Error determining buffering configuration.">>
                                     ELSE <<>>]
            IN IF in_nbytes - w2.ndone = 0 THEN FinalFlush(w2, "complete_first")
               ELSE UNION {AfterLoop(w3) : w3 \in BlockLoop(w2, blocks, notifs)}

(***************************************************************************)
(* The body filter: initial state and events                               *)
(***************************************************************************)
\* tsib_filter_ctx as allocated with the transaction: zeroed
NewFctx ==
    [buffering |-> IOBUF_NOBUF, buf_limit |-> 0, buffered |-> 0, bytes_done |-> 0,
     offs |-> 0, edits |-> <<>>, reader |-> <<>>, output_buffer |-> <<>>,
     output_vio |-> [nbytes |-> 0, final |-> FALSE], alloc |-> FALSE,
     applied |-> <<>>]

InspectAll == {IB_TX_FINSPECT_REQHDR, IB_TX_FINSPECT_REQBODY,
               IB_TX_FINSPECT_RESHDR, IB_TX_FINSPECT_RESBODY}

\* the tx flags the filter model finds at the first call
FilterFlags == {InspectAll, InspectAll \cup {IB_TX_FALLOW_ALL}}

\* the buffering configurations
CoreCfgs ==
    [buffer_req : {0, 1}, buffer_res : {0, 1},
     request_body_buffer_limit : -1..MaxLimit,
     response_body_buffer_limit : -1..MaxLimit,
     request_body_buffer_limit_action : {IB_BUFFER_LIMIT_ACTION_FLUSH_ALL,
                                         IB_BUFFER_LIMIT_ACTION_FLUSH_PARTIAL},
     response_body_buffer_limit_action : {IB_BUFFER_LIMIT_ACTION_FLUSH_ALL,
                                          IB_BUFFER_LIMIT_ACTION_FLUSH_PARTIAL}]

\* the configurations ib_core_context_config may return to the filter model:
\* both directions set alike
FilterCfgs ==
    {c \in CoreCfgs :
        /\ c.buffer_req = c.buffer_res
        /\ c.request_body_buffer_limit = c.response_body_buffer_limit
        /\ c.request_body_buffer_limit_action = c.response_body_buffer_limit_action}

FilterInit ==
    /\ fctx = NewFctx
    /\ dir \in {IBD_REQ, IBD_RESP}
    /\ status = 0
    /\ in_buf = "live"
    /\ in_nbytes \in 0..MaxLen
    /\ in_ndone = 0
    /\ upstream = "none"
    /\ ev = "none"
    /\ errlog = <<>>
    /\ chunk = NoChunk
    /\ fault = FALSE
    /\ added = <<>>
    /\ early = TRUE
    /\ discarded = FALSE
    /\ final_rc = "none"

\* the lengths of the blocks the host may have put in the input reader
BlockSeqs(ntodo) == {b \in SeqsUpTo(1..ntodo, MaxBlocks) : SumSeq(b) <= ntodo}

\* what the engine may do on n blocks in a row, k edits having been added
RECURSIVE NotifSeqs(_, _)
NotifSeqs(k, n) ==
    IF n = 0 THEN {<<>>}
    ELSE UNION {{<<nt>> \o rest : rest \in NotifSeqs(k + Len(nt.edits), n - 1)} :
                   nt \in Notifs(k)}

World ==
    [f |-> fctx, ndone |-> in_ndone, upstream |-> upstream, ev |-> ev,
     errlog |-> errlog, chunk |-> chunk, fault |-> fault, added |-> added,
     early |-> early, discarded |-> discarded, final_rc |-> final_rc]

SetWorld(w) ==
    /\ fctx' = w.f
    /\ in_ndone' = w.ndone
    /\ upstream' = w.upstream
    /\ ev' = w.ev
    /\ errlog' = w.errlog
    /\ chunk' = w.chunk
    /\ fault' = w.fault
    /\ added' = w.added
    /\ early' = w.early
    /\ discarded' = w.discarded
    /\ final_rc' = w.final_rc

\* the configuration of a call that does not read it
NoCfg == CHOOSE c \in FilterCfgs : TRUE

\* the host sends events until the filter fails or has sent the error upstream
Running == ~fault /\ upstream # "ERROR"

\* data_event, TS_EVENT_VCONN_WRITE_READY and any other event: process_data
DataEvent ==
    /\ Running
    /\ \E blocks \in BlockSeqs(in_nbytes - in_ndone) :
       \E notifs \in NotifSeqs(Len(added), Len(blocks)) :
       \E cfg \in (IF fctx.alloc THEN {NoCfg} ELSE FilterCfgs) :
       \E cfg_rc \in (IF fctx.alloc THEN {IB_OK} ELSE {IB_OK, IB_EUNKNOWN}) :
       \E flags \in (IF fctx.alloc THEN {{}} ELSE FilterFlags) :
       \E w \in process_data(World, blocks, notifs, cfg, cfg_rc, flags) :
          SetWorld(w)
    /\ UNCHANGED <<dir, status, in_buf, in_nbytes>>

\* data_event, TS_EVENT_ERROR: the event goes upstream
ErrorEvent ==
    /\ Running
    /\ upstream' = "ERROR"
    /\ ev' = "error"
    /\ errlog' = <<>>
    /\ UNCHANGED <<fctx, dir, status, in_buf, in_nbytes, in_ndone,
                   chunk, fault, added, early, discarded, final_rc>>

\* the engine decides to serve an error document
ErrorDoc ==
    /\ Running
    /\ status = 0
    /\ status' = 403
    /\ UNCHANGED <<fctx, dir, in_buf, in_nbytes, in_ndone,
                   upstream, ev, errlog, chunk, fault, added, early, discarded,
                   final_rc>>

\* the host takes the input buffer away
InputGone ==
    /\ Running
    /\ in_buf = "live"
    /\ in_buf' = "null"
    /\ UNCHANGED <<fctx, dir, status, in_nbytes, in_ndone,
                   upstream, ev, errlog, chunk, fault, added, early, discarded,
                   final_rc>>

(***************************************************************************)
(* rules.c: call_in_critical_section and ib_lua_func_eval_r                *)
(***************************************************************************)
Threads == 1..NThreads
NoThread == 0

\* g_ironbee_rules_lua, the root script context; the per-invocation contexts
\* are numbered from 1
RootState == 0
NoState == -1
LuaStates == 1..(NThreads * MaxEvals)

\* *result as the caller passed it in, not written by the evaluation
Unset == -1

\* the thread is inside fn, the function call_in_critical_section protects
InCritical(t) == pc[t] \in {"new_thread", "join_thread"}

\* lines 394-400: where call_in_critical_section goes after ib_lock_lock
AfterLockUnchecked(rc, fn) == fn
AfterLock(rc, fn) == IF rc # IB_OK THEN "return" ELSE fn

\* line 454: the context ib_lua_func_eval_int is called with
EvalContextRoot(t) == RootState
EvalContext(t) == L[t]

\* ib_lua_func_eval_r is entered: lua_operator_execute, line 491
StartEval(t) ==
    /\ pc[t] = "idle"
    /\ evals[t] < MaxEvals
    /\ evals' = [evals EXCEPT ![t] = @ + 1]
    /\ pc' = [pc EXCEPT ![t] = "lock_new"]
    /\ L' = [L EXCEPT ![t] = NoState]
    /\ called' = [called EXCEPT ![t] = FALSE]
    /\ eval_rc' = [eval_rc EXCEPT ![t] = "running"]
    /\ result' = [result EXCEPT ![t] = Unset]
    /\ UNCHANGED <<g_lua_lock, lua_threads, unlock_rc>>

ReturnOk(t, rc) ==
    /\ pc' = [pc EXCEPT ![t] = "idle"]
    /\ eval_rc' = [eval_rc EXCEPT ![t] = IB_OK]

\* an evaluation returns rc
Return(t, rc) ==
    /\ pc' = [pc EXCEPT ![t] = "idle"]
    /\ eval_rc' = [eval_rc EXCEPT ![t] = rc]

\* line 394: ib_lock_lock takes the free lock, or fails; fn is the function
\* to protect
Lock(t, at, fn) ==
    /\ pc[t] = at
    /\ \/ /\ g_lua_lock = NoThread
          /\ g_lua_lock' = t
          /\ pc' = [pc EXCEPT ![t] = AfterLock(IB_OK, fn)]
          /\ unlock_rc' = [unlock_rc EXCEPT ![t] = "none"]
          /\ UNCHANGED eval_rc
       \/ /\ IF AfterLock(IB_EUNKNOWN, fn) = "return"
             THEN Return(t, IB_EUNKNOWN)
             ELSE pc' = [pc EXCEPT ![t] = AfterLock(IB_EUNKNOWN, fn)]
                  /\ UNCHANGED eval_rc
          /\ UNCHANGED <<g_lua_lock, unlock_rc>>
    /\ UNCHANGED <<L, lua_threads, evals, called, result>>

LockNew(t) == Lock(t, "lock_new", "new_thread")

LockJoin(t) == Lock(t, "lock_join", "join_thread")

\* line 403 with fn = ib_lua_new_thread: a new context under the root, or a
\* failure; then lines 405-417: unlock and return the status of fn
NewThread(t) ==
    /\ pc[t] = "new_thread"
    /\ \/ /\ LET free == LuaStates \ lua_threads
                 s == CHOOSE x \in free : \A y \in free : x <= y
             IN /\ free # {}
                /\ L' = [L EXCEPT ![t] = s]
                /\ lua_threads' = lua_threads \cup {s}
          /\ pc' = [pc EXCEPT ![t] = "unlock_new"]
          /\ UNCHANGED eval_rc
       \/ /\ pc' = [pc EXCEPT ![t] = "unlock_new_failed"]
          /\ UNCHANGED <<L, lua_threads, eval_rc>>
    /\ UNCHANGED <<g_lua_lock, evals, called, result, unlock_rc>>

UnlockOutcomesSilent ==
    {[rc |-> IB_OK, held |-> FALSE], [rc |-> IB_OK, held |-> TRUE],
     [rc |-> IB_EUNKNOWN, held |-> TRUE], [rc |-> IB_EUNKNOWN, held |-> FALSE]}

\* line 405: what ib_lock_unlock may do: release the lock and return IB_OK,
\* or fail, and then the lock may still be held
UnlockOutcomes ==
    {[rc |-> IB_OK, held |-> FALSE],
     [rc |-> IB_EUNKNOWN, held |-> TRUE], [rc |-> IB_EUNKNOWN, held |-> FALSE]}

UnlockKeep(t, u) == g_lua_lock

\* line 405: the lock after ib_lock_unlock by thread t with outcome u
Unlock(t, u) == IF g_lua_lock = t /\ ~u.held THEN NoThread ELSE g_lua_lock

\* lines 405-417 after ib_lua_new_thread: a failed unlock returns its status,
\* else the status of fn; then lines 447-454: the call begins
UnlockNew(t) ==
    /\ pc[t] \in {"unlock_new", "unlock_new_failed"}
    /\ \E u \in UnlockOutcomes :
          /\ g_lua_lock' = Unlock(t, u)
          /\ unlock_rc' = [unlock_rc EXCEPT ![t] = u.rc]
          /\ IF u.rc # IB_OK THEN Return(t, u.rc)
             ELSE IF pc[t] = "unlock_new"
             THEN pc' = [pc EXCEPT ![t] = "call"] /\ UNCHANGED eval_rc
             ELSE Return(t, IB_EALLOC)
          /\ called' = [called EXCEPT ![t] = pc[t] = "unlock_new" /\ u.rc = IB_OK]
    /\ UNCHANGED <<L, lua_threads, evals, result>>

\* lines 454-461: ib_lua_func_eval_int returns and line 457 writes *result;
\* on a failure the evaluation returns at once
Call(t) ==
    /\ pc[t] = "call"
    /\ \/ pc' = [pc EXCEPT ![t] = "lock_join"] /\ UNCHANGED eval_rc
       \/ Return(t, IB_EINVAL)
    /\ \E v \in {0, 1} : result' = [result EXCEPT ![t] = v]
    /\ UNCHANGED <<g_lua_lock, L, lua_threads, evals, called, unlock_rc>>

\* line 403 with fn = ib_lua_join_thread: the context is disposed of
JoinThread(t) ==
    /\ pc[t] = "join_thread"
    /\ lua_threads' = lua_threads \ {L[t]}
    /\ pc' = [pc EXCEPT ![t] = "unlock_join"]
    /\ UNCHANGED <<g_lua_lock, L, evals, eval_rc, called, result, unlock_rc>>

\* lines 405-417 after ib_lua_join_thread, then line 466
UnlockJoin(t) ==
    /\ pc[t] = "unlock_join"
    /\ \E u \in UnlockOutcomes :
          /\ g_lua_lock' = Unlock(t, u)
          /\ unlock_rc' = [unlock_rc EXCEPT ![t] = u.rc]
          /\ Return(t, u.rc)
    /\ UNCHANGED <<L, lua_threads, evals, called, result>>

LuaInit ==
    /\ g_lua_lock = NoThread
    /\ pc = [t \in Threads |-> "idle"]
    /\ L = [t \in Threads |-> NoState]
    /\ lua_threads = {}
    /\ evals = [t \in Threads |-> 0]
    /\ eval_rc = [t \in Threads |-> "none"]
    /\ called = [t \in Threads |-> FALSE]
    /\ result = [t \in Threads |-> Unset]
    /\ unlock_rc = [t \in Threads |-> "none"]

(***************************************************************************)
(* rules.c: strings                                                        *)
(***************************************************************************)
\* a NULL char pointer
NullStr == "(null)"

\* the character of s at index i (from 1); "" past the end, as the NUL is
Ch(s, i) == IF i >= 1 /\ i <= Len(s) THEN SubSeq(s, i, i) ELSE ""

\* the rest of s from index i
From(s, i) == SubSeq(s, i, Len(s))

isblank(c) == c \in {" ", "\t"}
isspace(c) == c \in {" ", "\t", "\n", "\r", "\f"}

UpperAZ == "ABCDEFGHIJKLMNOPQRSTUVWXYZ"
LowerAZ == "abcdefghijklmnopqrstuvwxyz"
LowerOf == [i \in 1..26 |-> <<Ch(UpperAZ, i), Ch(LowerAZ, i)>>]
ToLowerMap == [c \in {LowerOf[i][1] : i \in 1..26} |->
                  LowerOf[CHOOSE i \in 1..26 : LowerOf[i][1] = c][2]]
tolower(c) == IF c \in DOMAIN ToLowerMap THEN ToLowerMap[c] ELSE c

\* strcasecmp(a, b) == 0: character by character up to the first difference
RECURSIVE strcaseeq(_, _)
strcaseeq(a, b) ==
    IF a = "" \/ b = "" THEN a = b
    ELSE tolower(Ch(a, 1)) = tolower(Ch(b, 1)) /\ strcaseeq(Tail(a), Tail(b))

\* strchr(s, c): the index of the first c in s, 0 when there is none
strchr(s, c) ==
    IF \E i \in 1..Len(s) : Ch(s, i) = c
    THEN CHOOSE i \in 1..Len(s) : Ch(s, i) = c /\ \A j \in 1..(i - 1) : Ch(s, j) # c
    ELSE 0

\* the index of the first character of s, from index i on, that is not in
\* set; Len(s) + 1 when there is none
RECURSIVE SkipWhile(_, _, _)
SkipWhile(s, i, set) ==
    IF i <= Len(s) /\ Ch(s, i) \in set THEN SkipWhile(s, i + 1, set) ELSE i

\* the index of the first character of s, from index i on, that is in set;
\* Len(s) + 1 when there is none
RECURSIVE SkipUntil(_, _, _)
SkipUntil(s, i, set) ==
    IF i <= Len(s) /\ Ch(s, i) \notin set THEN SkipUntil(s, i + 1, set) ELSE i

\* the tokens strtok(s, delims) returns, call after call
RECURSIVE strtok(_, _)
strtok(s, delims) ==
    LET b == SkipWhile(s, 1, delims)
        e == SkipUntil(s, b, delims)
    IN IF b > Len(s) THEN <<>>
       ELSE <<SubSeq(s, b, e - 1)>> \o strtok(From(s, e + 1), delims)

\* s without its trailing spaces, the first character kept (lines 158-165)
RECURSIVE TrimRight(_)
TrimRight(s) ==
    IF Len(s) > 1 /\ Ch(s, Len(s)) = " " THEN TrimRight(SubSeq(s, 1, Len(s) - 1)) ELSE s

(***************************************************************************)
(* rules.c: the rule being built and the engine calls                      *)
(***************************************************************************)
PHASE_NONE == 0
PHASE_REQUEST_HEADER == 1
PHASE_REQUEST_BODY == 2
PHASE_RESPONSE_HEADER == 3
PHASE_RESPONSE_BODY == 4
PHASE_POSTPROCESS == 5
Phases == PHASE_NONE..PHASE_POSTPROCESS

IB_RULE_FLAG_EXTERNAL == "IB_RULE_FLAG_EXTERNAL"
IB_RULE_FLAG_CHAIN == "IB_RULE_FLAG_CHAIN"
IB_OPINST_FLAG_INVERT == "IB_OPINST_FLAG_INVERT"

NoOpInst == [name |-> NullStr, args |-> NullStr, flags |-> {}, data |-> NullStr]

\* ib_rule_create: a rule with nothing set
NewRule ==
    [id |-> NullStr, flags |-> {}, inputs |-> <<>>, opinst |-> NoOpInst,
     true_actions |-> <<>>, false_actions |-> <<>>]

\* the actions of the action registry
ActionNames == {"block", "log"}

\* the status of an engine call: env.fail names the call that fails
CallRc(env, call) == IF env.fail = call THEN IB_EALLOC ELSE IB_OK

\* The state of a directive handler: the rule, the phase, the status so far,
\* the steps taken with their status, whether ib_rule_register took the rule,
\* what was loaded into the root script context and registered as operators.
NewParse(registry) ==
    [rule |-> NewRule, phase |-> PHASE_NONE, rc |-> IB_OK, steps |-> <<>>,
     registered |-> FALSE, loaded |-> {}, registry |-> registry]

Step(p, name, rc) == [p EXCEPT !.rc = rc, !.steps = p.steps \o <<[step |-> name, rc |-> rc]>>]

\* ib_operator_inst_create: an instance of a registered operator
ib_operator_inst_create(registry, name, args, flags) ==
    IF name \in registry
    THEN [rc |-> IB_OK, inst |-> [name |-> name, args |-> args, flags |-> flags,
                                 data |-> NullStr]]
    ELSE [rc |-> IB_EINVAL, inst |-> NoOpInst]

\* ib_action_inst_create: an instance of a registered action
ib_action_inst_create(name, value) ==
    IF name \in ActionNames
    THEN [rc |-> IB_OK, inst |-> [name |-> name, params |-> value]]
    ELSE [rc |-> IB_EINVAL, inst |-> [name |-> NullStr, params |-> NullStr]]

(***************************************************************************)
(* rules.c: parse_operator, parse_inputs, parse_modifier                   *)
(***************************************************************************)
RECURSIVE ScanOperatorAnyBang(_, _, _)
ScanOperatorAnyBang(str, i, bang) ==
    IF i > Len(str) THEN [at |-> 0, bang |-> bang, bad |-> FALSE]
    ELSE IF Ch(str, i) = "!" THEN ScanOperatorAnyBang(str, i + 1, TRUE)
    ELSE IF Ch(str, i) = "@" THEN [at |-> i, bang |-> bang, bad |-> FALSE]
    ELSE IF ~isblank(Ch(str, i)) THEN [at |-> 0, bang |-> bang, bad |-> TRUE]
    ELSE ScanOperatorAnyBang(str, i + 1, bang)

\* lines 113-127: the scan for a leading '!' and the '@'; i is the index,
\* bang whether a '!' was seen. The result: the index of the '@' (0: none),
\* whether the operator is inverted, whether the scan met a bad character.
RECURSIVE ScanOperator(_, _, _)
ScanOperator(str, i, bang) ==
    IF i > Len(str) THEN [at |-> 0, bang |-> bang, bad |-> FALSE]
    ELSE IF ~bang /\ Ch(str, i) = "!" THEN ScanOperator(str, i + 1, TRUE)
    ELSE IF Ch(str, i) = "@" THEN [at |-> i, bang |-> bang, bad |-> FALSE]
    ELSE IF ~isblank(Ch(str, i)) THEN [at |-> 0, bang |-> bang, bad |-> TRUE]
    ELSE ScanOperator(str, i + 1, bang)

\* lines 135-171: the operator name and its arguments, from the text after '@'
SplitOperator(copy) ==
    LET space == strchr(copy, " ")
        a0 == From(copy, SkipWhile(copy, space, {" ", "\t", "\n", "\r", "\f"}))
        a1 == TrimRight(a0)
    IN IF space = 0 THEN [op |-> copy, args |-> NullStr]
       ELSE [op |-> SubSeq(copy, 1, space - 1),
             args |-> IF a1 = "" THEN NullStr ELSE a1]

\* parse_operator(cp, rule, str)
parse_operator(p, str, env) ==
    LET sc == ScanOperator(str, 1, FALSE)
        sp == SplitOperator(From(str, sc.at + 1))
        flags == IF sc.bang THEN {IB_OPINST_FLAG_INVERT} ELSE {}
        created == ib_operator_inst_create(p.registry, sp.op, sp.args, flags)
    IN IF sc.bad THEN Step(p, "parse_operator", IB_EINVAL)
       ELSE IF sc.at = 0 \/ Len(From(str, sc.at + 1)) = 0
       THEN Step(p, "parse_operator", IB_EINVAL)
       ELSE IF created.rc # IB_OK THEN Step(p, "parse_operator", created.rc)
       ELSE IF CallRc(env, "ib_rule_set_operator") # IB_OK
       THEN Step(p, "parse_operator", CallRc(env, "ib_rule_set_operator"))
       ELSE Step([p EXCEPT !.rule.opinst = created.inst], "parse_operator", IB_OK)

parse_inputs_unchecked(p, input_str, env) ==
    LET str == From(input_str, SkipWhile(input_str, 1, {" ", "\t", "\n", "\r", "\f"}))
        toks == strtok(str, {"|", ","})
    IN IF toks # <<>> /\ CallRc(env, "ib_rule_add_input") # IB_OK
       THEN Step(p, "parse_inputs", CallRc(env, "ib_rule_add_input"))
       ELSE Step([p EXCEPT !.rule.inputs = p.rule.inputs \o toks], "parse_inputs", IB_OK)

\* parse_inputs(cp, rule, input_str)
parse_inputs(p, input_str, env) ==
    LET str == From(input_str, SkipWhile(input_str, 1, {" ", "\t", "\n", "\r", "\f"}))
        toks == strtok(str, {"|", ","})
    IN IF str = "" THEN Step(p, "parse_inputs", IB_EINVAL)
       ELSE IF toks # <<>> /\ CallRc(env, "ib_rule_add_input") # IB_OK
       THEN Step(p, "parse_inputs", CallRc(env, "ib_rule_add_input"))
       ELSE Step([p EXCEPT !.rule.inputs = p.rule.inputs \o toks], "parse_inputs", IB_OK)

\* lines 284-295: the name and the value of a modifier
SplitModifier(copy) ==
    LET colon == strchr(copy, ":")
        v == From(copy, SkipWhile(copy, colon + 1, {" ", "\t", "\n", "\r", "\f"}))
    IN IF colon # 0 /\ Ch(copy, colon + 1) # ""
       THEN [name |-> SubSeq(copy, 1, colon - 1),
             value |-> IF v = "" THEN NullStr ELSE v]
       ELSE [name |-> copy, value |-> NullStr]

PhaseOfTagShifted(value) ==
    IF strcaseeq(value, "REQUEST_HEADER") THEN PHASE_REQUEST_HEADER
    ELSE IF strcaseeq(value, "REQUEST") THEN PHASE_RESPONSE_BODY
    ELSE IF strcaseeq(value, "RESPONSE_HEADER") THEN PHASE_RESPONSE_HEADER
    ELSE IF strcaseeq(value, "RESPONSE") THEN PHASE_REQUEST_BODY
    ELSE IF strcaseeq(value, "POSTPROCESS") THEN PHASE_POSTPROCESS
    ELSE IF strcaseeq(value, "NONE") THEN PHASE_NONE
    ELSE -1

PhaseOfTagPrefix(value) ==
    IF strcaseeq(SubSeq(value, 1, Min(7, Len(value))), "REQUEST") THEN PHASE_REQUEST_HEADER
    ELSE IF strcaseeq(value, "RESPONSE_HEADER") THEN PHASE_RESPONSE_HEADER
    ELSE IF strcaseeq(value, "RESPONSE") THEN PHASE_RESPONSE_BODY
    ELSE IF strcaseeq(value, "POSTPROCESS") THEN PHASE_POSTPROCESS
    ELSE IF strcaseeq(value, "NONE") THEN PHASE_NONE
    ELSE -1

\* lines 310-331: the phase a tag names; -1 when it names none
PhaseOfTag(value) ==
    IF strcaseeq(value, "REQUEST_HEADER") THEN PHASE_REQUEST_HEADER
    ELSE IF strcaseeq(value, "REQUEST") THEN PHASE_REQUEST_BODY
    ELSE IF strcaseeq(value, "RESPONSE_HEADER") THEN PHASE_RESPONSE_HEADER
    ELSE IF strcaseeq(value, "RESPONSE") THEN PHASE_RESPONSE_BODY
    ELSE IF strcaseeq(value, "POSTPROCESS") THEN PHASE_POSTPROCESS
    ELSE IF strcaseeq(value, "NONE") THEN PHASE_NONE
    ELSE -1

\* lines 336-365: any other modifier is an action
ActionModifier(p, name0, value, env) ==
    LET inv == Ch(name0, 1) = "!"
        name == IF inv THEN Tail(name0) ELSE name0
        created == ib_action_inst_create(name, value)
    IN IF created.rc # IB_OK THEN Step(p, "parse_modifier", created.rc)
       ELSE IF CallRc(env, "ib_rule_add_action") # IB_OK
       THEN Step(p, "parse_modifier", CallRc(env, "ib_rule_add_action"))
       ELSE IF inv
       THEN Step([p EXCEPT !.rule.false_actions = @ \o <<created.inst>>],
                 "parse_modifier", IB_OK)
       ELSE Step([p EXCEPT !.rule.true_actions = @ \o <<created.inst>>],
                 "parse_modifier", IB_OK)

\* parse_modifier(cp, rule, phase, modifier_str)
parse_modifier(p, modifier_str, env) ==
    LET m == SplitModifier(modifier_str)
    IN IF strcaseeq(m.name, "id")
       THEN IF m.value = NullStr THEN Step(p, "parse_modifier", IB_EINVAL)
            ELSE Step([p EXCEPT !.rule.id = m.value], "parse_modifier", IB_OK)
       ELSE IF strcaseeq(m.name, "phase")
       THEN IF m.value = NullStr \/ PhaseOfTag(m.value) = -1
            THEN Step(p, "parse_modifier", IB_EINVAL)
            ELSE Step([p EXCEPT !.phase = PhaseOfTag(m.value)], "parse_modifier", IB_OK)
       ELSE IF strcaseeq(m.name, "chain")
       THEN Step([p EXCEPT !.rule.flags = @ \cup {IB_RULE_FLAG_CHAIN}],
                 "parse_modifier", IB_OK)
       ELSE ActionModifier(p, m.name, m.value, env)

\* rules_rule_params lines 699-709 and rules_ruleext_params lines 549-560:
\* the modifiers in turn, up to the first that fails
RECURSIVE ModifiersIgnoringErrors(_, _, _)
ModifiersIgnoringErrors(p, mods, env) ==
    IF mods = <<>> THEN [p EXCEPT !.rc = IB_OK]
    ELSE ModifiersIgnoringErrors(parse_modifier(p, Head(mods), env), Tail(mods), env)

RECURSIVE Modifiers(_, _, _)
Modifiers(p, mods, env) ==
    IF mods = <<>> THEN p
    ELSE LET q == parse_modifier(p, Head(mods), env)
         IN IF q.rc # IB_OK THEN q ELSE Modifiers(q, Tail(mods), env)

(***************************************************************************)
(* rules.c: the Rule and RuleExt directives                                *)
(***************************************************************************)
\* ib_rule_register(ib, ctx, rule, phase)
ib_rule_register(p, env) ==
    IF CallRc(env, "ib_rule_register") # IB_OK
    THEN Step(p, "ib_rule_register", CallRc(env, "ib_rule_register"))
    ELSE Step([p EXCEPT !.registered = TRUE], "ib_rule_register", IB_OK)

\* rules_rule_params lines 676-681, rules_ruleext_params lines 541-547
ib_rule_create(p, env, flags) ==
    IF CallRc(env, "ib_rule_create") # IB_OK
    THEN Step(p, "ib_rule_create", CallRc(env, "ib_rule_create"))
    ELSE Step([p EXCEPT !.rule.flags = flags], "ib_rule_create", IB_OK)

\* rules_rule_params(cp, name, vars, cbdata)
rules_rule_params(p0, params, env) ==
    IF Len(params) < 1 \/ params[1] = NullStr THEN Step(p0, "inputs", IB_EINVAL)
    ELSE IF Len(params) < 2 \/ params[2] = NullStr THEN Step(p0, "op", IB_EINVAL)
    ELSE LET p1 == ib_rule_create(p0, env, {})
             p2 == parse_inputs(p1, params[1], env)
             p3 == parse_operator(p2, params[2], env)
             p4 == Modifiers(p3, SubSeq(params, 3, Len(params)), env)
         IN IF p1.rc # IB_OK THEN p1
            ELSE IF p2.rc # IB_OK THEN p2
            ELSE IF p3.rc # IB_OK THEN p3
            ELSE IF p4.rc # IB_OK THEN p4
            ELSE ib_rule_register(p4, env)

IsLuaSchemeInverted(file_name) ==
    ~strcaseeq(SubSeq(file_name, 1, Min(4, Len(file_name))), "lua:")

\* strncasecmp(file_name, "lua:", 4) == 0
IsLuaScheme(file_name) == strcaseeq(SubSeq(file_name, 1, Min(4, Len(file_name))), "lua:")

\* ib_lua_load_func(ib, L, file, func_name): the file's chunk is published in
\* the root script context under func_name. A rule without an id passes a
\* NULL name, which the loader may refuse or may pass on: env.nullname.
ib_lua_load_func(p, file, func_name, env) ==
    LET rc == IF CallRc(env, "ib_lua_load_func") # IB_OK
              THEN CallRc(env, "ib_lua_load_func")
              ELSE IF func_name = NullStr THEN env.nullname ELSE IB_OK
    IN IF rc # IB_OK THEN Step(p, "ib_lua_load_func", rc)
       ELSE Step([p EXCEPT !.loaded = @ \cup {[file |-> file, name |-> func_name]}],
                 "ib_lua_load_func", IB_OK)

\* ib_operator_register(ib, name, ...): registering a name again is accepted
ib_operator_register(p, name, env) ==
    IF CallRc(env, "ib_operator_register") # IB_OK
    THEN Step(p, "ib_operator_register", CallRc(env, "ib_operator_register"))
    ELSE Step([p EXCEPT !.registry = @ \cup {name}], "ib_operator_register", IB_OK)

\* rules_ruleext_params lines 589-609: the operator instance of the script,
\* its data the rule id
ExtOperator(p, file_name, env) ==
    LET created == ib_operator_inst_create(p.registry, file_name, NullStr, {})
        inst == [created.inst EXCEPT !.data = p.rule.id]
    IN IF created.rc # IB_OK THEN Step(p, "ib_operator_inst_create", created.rc)
       ELSE IF CallRc(env, "ib_rule_set_operator") # IB_OK
       THEN Step(p, "ib_rule_set_operator", CallRc(env, "ib_rule_set_operator"))
       ELSE Step([p EXCEPT !.rule.opinst = inst], "ib_rule_set_operator", IB_OK)

\* rules_ruleext_params(cp, name, vars, cbdata)
rules_ruleext_params(p0, params, env) ==
    LET file_name == params[1]
        p1 == ib_rule_create(p0, env, {IB_RULE_FLAG_EXTERNAL})
        p2 == Modifiers(p1, Tail(params), env)
        p3 == ib_lua_load_func(p2, From(file_name, 5), p2.rule.id, env)
        p4 == ib_operator_register(p3, file_name, env)
        p5 == ExtOperator(p4, file_name, env)
    IN IF file_name = NullStr THEN Step(p0, "inputs", IB_EINVAL)
       ELSE IF p1.rc # IB_OK THEN p1
       ELSE IF p2.rc # IB_OK THEN p2
       ELSE IF ~IsLuaScheme(file_name) THEN Step(p2, "scheme", IB_EINVAL)
       ELSE IF p3.rc # IB_OK THEN p3
       ELSE IF p4.rc # IB_OK THEN p4
       ELSE IF p5.rc # IB_OK THEN p5
       ELSE ib_rule_register(p5, env)

(***************************************************************************)
(* The configuration: directives in turn                                   *)
(***************************************************************************)
InputStrs == {"ARGS", "A|B", "", " \t", "|,"}
OperatorStrs == {"@rx a", "!@rx", "rx", "@nosuch", "!!@rx", "x@rx", " ! @rx a", "@"}
ModifierStrs ==
    {"id:r1", "phase:REQUEST", "phase:bogus", "chain", "!log:x", "nosuch",
     "Phase:Request_Header", "PHASE:response", "phase:RESPONSE_HEADER",
     "phase:postprocess", "phase:NONE", "phase", "phase:"}
UriStrs == {"lua:/a.lua", "LUA:/b.lua", "xml:/c", "lua"}
ModifierLists == SeqsUpTo(ModifierStrs, MaxMods)
ShortModifierLists == SeqsUpTo(ModifierStrs, MaxMods - 1)

\* the parameters of a directive: every inputs string, operator string and
\* uri with the shorter modifier lists, and every modifier list behind inputs,
\* an operator and a uri that parse
RuleVars ==
    {<<>>} \cup {<<i>> : i \in InputStrs}
    \cup {<<i, o>> \o m : i \in InputStrs, o \in OperatorStrs, m \in ShortModifierLists}
    \cup {<<"ARGS", "@rx a">> \o m : m \in ModifierLists}
RuleExtVars ==
    {<<u>> \o m : u \in UriStrs, m \in ShortModifierLists}
    \cup {<<"lua:/a.lua">> \o m : m \in ModifierLists}

\* what the engine does to the calls of one directive: the call that fails,
\* and what the script loader makes of a NULL name
RuleEnvs ==
    {[fail |-> f, nullname |-> IB_OK] :
        f \in {"none", "ib_rule_create", "ib_rule_add_input", "ib_rule_set_operator",
               "ib_rule_add_action", "ib_rule_register"}}
RuleExtEnvs ==
    {[fail |-> f, nullname |-> n] :
        f \in {"none", "ib_rule_create", "ib_rule_add_action", "ib_lua_load_func",
               "ib_operator_register", "ib_rule_set_operator", "ib_rule_register"},
        n \in {IB_OK, IB_EINVAL}}

\* the operators the engine registers at start
CoreOperators == {"rx"}

NoDirective ==
    [kind |-> "none", vars |-> <<>>, rc |-> IB_OK, steps |-> <<>>,
     registered |-> FALSE, rule |-> NewRule, phase |-> PHASE_NONE]

RuleInit ==
    /\ rule_lists = [ph \in Phases |-> <<>>]
    /\ op_registry = CoreOperators
    /\ lua_funcs = {}
    /\ last_dir = NoDirective
    /\ ndirectives = 0
    /\ reg_order = <<>>

\* the state after a directive handler has returned p
Handled(kind, dvars, p) ==
    /\ ndirectives' = ndirectives + 1
    /\ reg_order' = IF p.registered THEN reg_order \o <<p.rule.id>> ELSE reg_order
    /\ rule_lists' = IF p.registered
                     THEN [rule_lists EXCEPT ![p.phase] = @ \o <<p.rule>>]
                     ELSE rule_lists
    /\ op_registry' = p.registry
    /\ lua_funcs' = lua_funcs \cup p.loaded
    /\ last_dir' = [kind |-> kind, vars |-> dvars, rc |-> p.rc, steps |-> p.steps,
                    registered |-> p.registered, rule |-> p.rule, phase |-> p.phase]

Directive(kind, dvars, p) ==
    /\ ndirectives < MaxDirectives
    /\ Handled(kind, dvars, p)

RuleDirective ==
    \E dvars \in RuleVars, env \in RuleEnvs :
        Directive("Rule", dvars, rules_rule_params(NewParse(op_registry), dvars, env))

RuleExtDirective ==
    \E dvars \in RuleExtVars, env \in RuleExtEnvs :
        Directive("RuleExt", dvars, rules_ruleext_params(NewParse(op_registry), dvars, env))

(***************************************************************************)
(* ts_filter.c: buffer_init over every configuration and every tx flag     *)
(***************************************************************************)
\* the flags of tx->flags buffer_init looks at
TxFlags ==
    {IB_TX_FALLOW_ALL, IB_TX_FALLOW_REQUEST, IB_TX_FINSPECT_REQHDR,
     IB_TX_FINSPECT_REQBODY, IB_TX_FINSPECT_RESHDR, IB_TX_FINSPECT_RESBODY}

\* buffer_init has not been called
NoBufferInit ==
    [called |-> FALSE, flags |-> {}, cfg |-> NoCfg, cfg_rc |-> IB_OK,
     selected |-> IOBUF_NOBUF]

BufferInitInit == binit = NoBufferInit

\* the call of buffer_init on the first data event of the direction; selected
\* is fctx->buffering when control is at line 276
BufferInitCall ==
    /\ ~binit.called
    /\ \E cfg \in CoreCfgs, cfg_rc \in {IB_OK, IB_EUNKNOWN}, flags \in SUBSET TxFlags :
          /\ fctx' = buffer_init(fctx, dir, cfg, cfg_rc, flags)
          /\ binit' = [called |-> TRUE, flags |-> flags, cfg |-> cfg, cfg_rc |-> cfg_rc,
                       selected |-> ReadConfig(fctx, dir, cfg, cfg_rc).buffering]
    /\ UNCHANGED <<dir, status, in_buf, in_nbytes, in_ndone, upstream, ev, errlog,
                   chunk, fault, added, early, discarded, final_rc>>

(***************************************************************************)
(* The phase scheduler: rules configured, then fired for one transaction   *)
(***************************************************************************)
MaxSchedDirectives == 3

\* Rule directives of a configuration, one id each
SchedVars ==
    {<<"ARGS", "@rx a", "id:hdr1", "phase:REQUEST_HEADER">>,
     <<"ARGS", "@rx a", "id:hdr2", "phase:REQUEST_HEADER">>,
     <<"ARGS", "@rx a", "id:body", "phase:REQUEST">>,
     <<"ARGS", "@rx a", "id:rhdr", "phase:RESPONSE_HEADER">>,
     <<"ARGS", "@rx a", "id:rbody", "phase:RESPONSE">>,
     <<"ARGS", "@rx a", "id:post", "phase:POSTPROCESS">>}

\* the engine calls of a directive all succeed
SchedEnv == [fail |-> "none", nullname |-> IB_OK]

SchedInit ==
    /\ tx_phase = PHASE_NONE
    /\ fired = <<>>

\* a Rule directive of the configuration; the configuration is read before
\* traffic and gives each rule an id of its own
SchedDirective ==
    /\ tx_phase = PHASE_NONE
    /\ ndirectives < MaxSchedDirectives
    /\ \E dvars \in SchedVars :
          LET p == rules_rule_params(NewParse(op_registry), dvars, SchedEnv)
          IN /\ p.rule.id \notin Range(reg_order)
             /\ Handled("Rule", dvars, p)

\* the host signals the next phase of the transaction: the scheduler goes
\* through the list of the phase in insertion order and fires each rule
PhaseTransition ==
    /\ tx_phase < PHASE_POSTPROCESS
    /\ tx_phase' = tx_phase + 1
    /\ fired' = fired \o rule_lists[tx_phase + 1]

(***************************************************************************)
(* ts_filter.c: flush_data on its own                                      *)
(***************************************************************************)
NoFlush == [called |-> FALSE, f |-> NewFctx, nbytes |-> -1, last |-> FALSE,
            s |-> Frame(NewFctx, <<>>, 0)]

FlushInit == flush = NoFlush

\* the edit lists a flush may find: the engine adds edits in any order and at
\* any offset, the k-th with the replacement Repl(k, l)
EditLists ==
    {<<>>} \cup {<<e>> : e \in Edits(1)}
           \cup {<<e1, e2>> : e1 \in Edits(1), e2 \in Edits(2)}

\* a filter context a flush may find: done bytes of the body have gone out
\* unedited, the next buffered ones are in the reader, es are the edits
FlushContext(done, buffered, es) ==
    [NewFctx EXCEPT !.alloc = TRUE, !.buffering = IOBUF_BUFFER_ALL,
                    !.bytes_done = done, !.buffered = buffered,
                    !.reader = SubSeq(Body(done + buffered), done + 1, done + buffered),
                    !.output_buffer = Body(done), !.edits = es]

\* the calls of flush_data in the filter: (-1, 1) at the end of the stream,
\* (-1, 0) in buffer_data_chunk, (buffered - buf_limit, 0) in mode flushpart
FlushArgs(f) ==
    {<<-1, TRUE>>, <<-1, FALSE>>} \cup {<<n, FALSE>> : n \in 1..f.buffered}

\* a call of flush_data that is still to be made
FlushInput(f, a) ==
    [called |-> FALSE, f |-> f, nbytes |-> a[1], last |-> a[2], s |-> Frame(f, <<>>, 0)]

\* one call of flush_data
FlushCall ==
    /\ ~flush.called
    /\ \E s \in flush_data(flush.f, flush.nbytes, flush.last) :
          flush' = [flush EXCEPT !.called = TRUE, !.s = s]

(***************************************************************************)
(* Predicate: the setName call, as test_standard_valuelist.cpp fixes it    *)
(***************************************************************************)
MaxArgs == 3

\* literals of the expression language: null and string literals
Null == [type |-> "null", s |-> ""]
Str(x) == [type |-> "string", s |-> x]
Literals == {Null, Str("a"), Str("b"), Str("c")}

EINVAL == "einval"

\* what an evaluation gives: a value, or the exception thrown
Thrown(e) == [type |-> e, s |-> ""]
NoOutcome == [type |-> "none", s |-> ""]

\* the argument lists of the test, and the others of up to MaxArgs literals
SetNameArgs == SeqsUpTo(Literals, MaxArgs)

\* validation of a setName node: two children, the first a string literal
SetNameValidate(args) ==
    IF Len(args) # 2 THEN EINVAL
    ELSE IF args[1].type # "string" THEN EINVAL
    ELSE IB_OK

SetNameEvalName(args) ==
    IF SetNameValidate(args) = EINVAL THEN Thrown(EINVAL) ELSE args[1]

\* evaluation of (setName n v): the value of v, under the name n
SetNameEval(args) ==
    IF SetNameValidate(args) = EINVAL THEN Thrown(EINVAL) ELSE args[2]

\* eval_bool: a value that is not null is true
Truthy(v) == v.type \notin {EINVAL, "null"}

\* eval_s: the string of a value
eval_s(v) == v.s

PredInit == sexpr = <<>> /\ outcome = NoOutcome

\* eval_bool / eval_s of the expression (setName args...)
EvalSetName ==
    /\ outcome = NoOutcome
    /\ outcome' = SetNameEval(sexpr)
    /\ UNCHANGED sexpr

(***************************************************************************)
(* rules.c: rules_init, rules_fini and clean_up_ipc_mem                    *)
(***************************************************************************)
\* most calls of rules_init in the life of the process
MaxInits == 3

\* where rules_init returns: the check or the call that failed, or "ok"
InitSteps == {"module_null", "newstate", "config", "malloc", "load_eval",
              "require_ironbee", "require_ffi", "ok"}

\* the status rules_init returns from there
InitStatus(step) ==
    CASE step = "ok" -> IB_OK
      [] step = "module_null" -> IB_EINVAL
      [] step \in {"newstate", "malloc"} -> IB_EALLOC
      [] OTHER -> IB_EUNKNOWN

\* the failing returns of rules_init that call clean_up_ipc_mem first
CleansUp(step) ==
    step \in {"module_null", "malloc", "load_eval", "require_ironbee", "require_ffi"}

\* the process before the module is initialised
NewLife ==
    [lock        |-> "none",    \* g_lua_lock: "none", "live" or "destroyed"
     destroys    |-> 0,         \* ib_lock_destroy calls since the last rules_init
     handlers    |-> 0,         \* clean_up_ipc_mem registrations with atexit
     inits       |-> 0,         \* rules_init calls so far
     lua         |-> "null",    \* g_ironbee_rules_lua: "null" or "open"
     loaded      |-> FALSE,     \* rules_init returned IB_OK, no rules_fini since
     rc          |-> "none",    \* what the last rules_init returned
     uses        |-> 0,         \* ib_lock_lock calls since the last rules_init
     locked_dead |-> FALSE,     \* ib_lock_lock was called on a destroyed lock
     exited      |-> FALSE]     \* the process has exited

ib_lock_destroy(l) == [l EXCEPT !.lock = "destroyed", !.destroys = @ + 1]

clean_up_ipc_mem(l) == ib_lock_destroy(l)

\* rules_init returning at step; lock_ok: ib_lock_init returned IB_OK (a failure
\* is logged and the function goes on)
rules_init(l, lock_ok, step) ==
    LET made == [l EXCEPT !.lock = IF lock_ok THEN "live" ELSE @,
                          !.destroys = 0,
                          !.uses = 0,
                          !.inits = @ + 1,
                          !.handlers = @ + 1,
                          !.lua = IF step = "module_null" THEN @
                                  ELSE IF step = "newstate" THEN "null" ELSE "open",
                          !.rc = InitStatus(step),
                          !.loaded = (step = "ok")]
    IN IF CleansUp(step) THEN clean_up_ipc_mem(made) ELSE made

rules_fini(l) == [ib_lock_destroy(l) EXCEPT !.lua = "null", !.loaded = FALSE]

\* the handlers registered with atexit run, each once
RECURSIVE RunHandlers(_, _)
RunHandlers(l, n) == IF n = 0 THEN l ELSE RunHandlers(clean_up_ipc_mem(l), n - 1)

LifeInit == life = NewLife

\* the engine initialises the module
RulesInit ==
    /\ ~life.exited /\ ~life.loaded /\ life.inits < MaxInits
    /\ \E lock_ok \in BOOLEAN : \E step \in InitSteps :
          life' = rules_init(life, lock_ok, step)

\* the engine unloads the module
RulesFini ==
    /\ ~life.exited /\ life.loaded
    /\ life' = rules_fini(life)

\* a rule evaluation of the loaded module takes g_lua_lock
LockUse ==
    /\ ~life.exited /\ life.loaded /\ life.uses < MaxEvals
    /\ life' = [life EXCEPT !.uses = @ + 1,
                            !.locked_dead = @ \/ life.lock = "destroyed"]

\* the process exits
ProcessExit ==
    /\ ~life.exited
    /\ life' = [RunHandlers(life, life.handlers) EXCEPT !.exited = TRUE]

(***************************************************************************)
(* ts_filter.c: data_event, TS_EVENT_VCONN_WRITE_COMPLETE                  *)
(***************************************************************************)
IB_TX_FREQ_FINISHED == "IB_TX_FREQ_FINISHED"
IB_TX_FRES_FINISHED == "IB_TX_FRES_FINISHED"
IB_TX_FPOSTPROCESS == "IB_TX_FPOSTPROCESS"
IB_TX_FLOGGING == "IB_TX_FLOGGING"

EndFlags == {IB_TX_FREQ_FINISHED, IB_TX_FRES_FINISHED, IB_TX_FPOSTPROCESS,
             IB_TX_FLOGGING}

Dirs == {IBD_REQ, IBD_RESP}

\* the flag the direction's finished notification is guarded by
FinishedFlag(d) == IF d = IBD_REQ THEN IB_TX_FREQ_FINISHED ELSE IB_TX_FRES_FINISHED

\* ibd->ibd->ib_notify_end of the direction
ib_notify_end(d) == IF d = IBD_REQ THEN "request_finished" ELSE "response_finished"

\* a notification of the engine: it is issued and it sets its flag
Notified(x, note, flag) ==
    [x EXCEPT !.notes = Append(@, note), !.flags = @ \cup {flag}]

\* the transaction before any write-complete event
NoTxn ==
    [flags    |-> {},                        \* txndata->tx->flags
     closed   |-> [d \in Dirs |-> FALSE],    \* TSVConnClosedGet(contp)
     post     |-> [d \in Dirs |-> FALSE],    \* ib_notify_post != NULL
     log      |-> [d \in Dirs |-> FALSE],    \* ib_notify_log != NULL
     shutdown |-> [d \in Dirs |-> FALSE],    \* TSVConnShutdown was called
     notes    |-> <<>>,                      \* notifications issued, in order
     last     |-> "none"]                    \* direction of the last event

\* the write-complete case with every notification issued unguarded
write_complete_unguarded(x, d) ==
    LET s == [x EXCEPT !.shutdown[d] = TRUE]
        e == Notified(s, ib_notify_end(d), FinishedFlag(d))
        p == IF s.post[d] THEN Notified(e, "postprocess", IB_TX_FPOSTPROCESS) ELSE e
    IN IF s.log[d] THEN Notified(p, "logging", IB_TX_FLOGGING) ELSE p

\* the write-complete case of data_event for direction d
write_complete(x, d) ==
    LET s == [x EXCEPT !.shutdown[d] = TRUE]
        e == IF ~ib_flags_all(s.flags, {FinishedFlag(d)})
             THEN Notified(s, ib_notify_end(d), FinishedFlag(d)) ELSE s
        p == IF s.post[d] /\ ~ib_flags_all(e.flags, {IB_TX_FPOSTPROCESS})
             THEN Notified(e, "postprocess", IB_TX_FPOSTPROCESS) ELSE e
    IN IF s.log[d] /\ ~ib_flags_all(p.flags, {IB_TX_FLOGGING})
       THEN Notified(p, "logging", IB_TX_FLOGGING) ELSE p

\* data_event on TS_EVENT_VCONN_WRITE_COMPLETE: nothing when the connection of
\* the continuation is closed
data_event_write_complete(x, d) ==
    [(IF x.closed[d] THEN x ELSE write_complete(x, d)) EXCEPT !.last = d]

NoteInit == txn = NoTxn

\* the host signals write-complete to the filter of direction d
WriteComplete(d) == txn' = data_event_write_complete(txn, d)

\* TSVConnClose on the filter of direction d
CloseConn(d) ==
    /\ ~txn.closed[d]
    /\ txn' = [txn EXCEPT !.closed[d] = TRUE]

(***************************************************************************)
(* Specifications                                                          *)
(***************************************************************************)
Init ==
    /\ FilterInit /\ LuaInit /\ RuleInit /\ BufferInitInit /\ SchedInit /\ FlushInit
    /\ PredInit /\ LifeInit /\ NoteInit

Next ==
    \/ DataEvent /\ UNCHANGED <<lua_vars, rule_vars, init_vars, sched_vars, flush_vars, pred_vars,
                 life_vars, note_vars>>
    \/ ErrorEvent /\ UNCHANGED <<lua_vars, rule_vars, init_vars, sched_vars, flush_vars, pred_vars,
                 life_vars, note_vars>>
    \/ ErrorDoc /\ UNCHANGED <<lua_vars, rule_vars, init_vars, sched_vars, flush_vars, pred_vars,
                 life_vars, note_vars>>
    \/ InputGone /\ UNCHANGED <<lua_vars, rule_vars, init_vars, sched_vars, flush_vars, pred_vars,
                 life_vars, note_vars>>

Spec == Init /\ [][Next]_vars

NextLua ==
    \/ \E t \in Threads : StartEval(t) /\ UNCHANGED <<filter_vars, rule_vars, init_vars, sched_vars, flush_vars, pred_vars,
                 life_vars, note_vars>>
    \/ \E t \in Threads : LockNew(t) /\ UNCHANGED <<filter_vars, rule_vars, init_vars, sched_vars, flush_vars, pred_vars,
                 life_vars, note_vars>>
    \/ \E t \in Threads : NewThread(t) /\ UNCHANGED <<filter_vars, rule_vars, init_vars, sched_vars, flush_vars, pred_vars,
                 life_vars, note_vars>>
    \/ \E t \in Threads : UnlockNew(t) /\ UNCHANGED <<filter_vars, rule_vars, init_vars, sched_vars, flush_vars, pred_vars,
                 life_vars, note_vars>>
    \/ \E t \in Threads : Call(t) /\ UNCHANGED <<filter_vars, rule_vars, init_vars, sched_vars, flush_vars, pred_vars,
                 life_vars, note_vars>>
    \/ \E t \in Threads : LockJoin(t) /\ UNCHANGED <<filter_vars, rule_vars, init_vars, sched_vars, flush_vars, pred_vars,
                 life_vars, note_vars>>
    \/ \E t \in Threads : JoinThread(t) /\ UNCHANGED <<filter_vars, rule_vars, init_vars, sched_vars, flush_vars, pred_vars,
                 life_vars, note_vars>>
    \/ \E t \in Threads : UnlockJoin(t) /\ UNCHANGED <<filter_vars, rule_vars, init_vars, sched_vars, flush_vars, pred_vars,
                 life_vars, note_vars>>

\* the script rules alone: the filter is that of one fixed transaction
InitLua == Init /\ dir = IBD_REQ /\ in_nbytes = 0

SpecLua == InitLua /\ [][NextLua]_vars

\* the steps of thread t between ib_lock_lock and the return of
\* call_in_critical_section: fn and ib_lock_unlock do not wait
CriticalStep(t) ==
    /\ NewThread(t) \/ UnlockNew(t) \/ JoinThread(t) \/ UnlockJoin(t)
    /\ UNCHANGED <<filter_vars, rule_vars, init_vars, sched_vars, flush_vars, pred_vars,
                 life_vars, note_vars>>

\* the script rules, a thread inside call_in_critical_section going on
SpecLuaFair ==
    InitLua /\ [][NextLua]_vars /\ \A t \in Threads : WF_vars(CriticalStep(t))

NextRule ==
    \/ RuleDirective /\ UNCHANGED <<filter_vars, lua_vars, init_vars, sched_vars, flush_vars, pred_vars,
                 life_vars, note_vars>>
    \/ RuleExtDirective /\ UNCHANGED <<filter_vars, lua_vars, init_vars, sched_vars, flush_vars, pred_vars,
                 life_vars, note_vars>>

\* the configuration alone
SpecRule == InitLua /\ [][NextRule]_vars

NextBufferInit ==
    BufferInitCall /\ UNCHANGED <<lua_vars, rule_vars, sched_vars, flush_vars, pred_vars,
                 life_vars, note_vars>>

InitBufferInit == Init /\ in_nbytes = 0

SpecBufferInit == InitBufferInit /\ [][NextBufferInit]_vars

NextSched ==
    \/ SchedDirective /\ UNCHANGED <<filter_vars, lua_vars, init_vars, sched_vars, flush_vars, pred_vars,
                 life_vars, note_vars>>
    \/ PhaseTransition /\ UNCHANGED <<filter_vars, lua_vars, init_vars, rule_vars, flush_vars, pred_vars,
                 life_vars, note_vars>>

SpecSched == InitLua /\ [][NextSched]_vars

NextFlush ==
    FlushCall /\ UNCHANGED <<filter_vars, lua_vars, rule_vars, init_vars, sched_vars, pred_vars,
                            life_vars, note_vars>>

InitFlush ==
    /\ FilterInit /\ LuaInit /\ RuleInit /\ BufferInitInit /\ SchedInit /\ PredInit
    /\ LifeInit /\ NoteInit
    /\ dir = IBD_REQ /\ in_nbytes = 0
    /\ \E done \in 0..MaxLen : \E buffered \in 0..(MaxLen - done) :
       \E es \in EditLists :
          LET f == FlushContext(done, buffered, es)
          IN \E a \in FlushArgs(f) : flush = FlushInput(f, a)

\* flush_data alone, over the contexts and arguments it may be called with
SpecFlush == InitFlush /\ [][NextFlush]_vars

NextPredicate ==
    EvalSetName /\ UNCHANGED <<filter_vars, lua_vars, rule_vars, init_vars, sched_vars, flush_vars,
                              life_vars, note_vars>>

InitPredicate ==
    /\ FilterInit /\ LuaInit /\ RuleInit /\ BufferInitInit /\ SchedInit /\ FlushInit
    /\ dir = IBD_REQ /\ in_nbytes = 0
    /\ sexpr \in SetNameArgs /\ outcome = NoOutcome
    /\ LifeInit /\ NoteInit

\* the evaluation of one setName expression
SpecPredicate == InitPredicate /\ [][NextPredicate]_vars

NextLife ==
    \/ RulesInit /\ UNCHANGED <<filter_vars, lua_vars, rule_vars, init_vars, sched_vars,
                               flush_vars, pred_vars, note_vars>>
    \/ RulesFini /\ UNCHANGED <<filter_vars, lua_vars, rule_vars, init_vars, sched_vars,
                               flush_vars, pred_vars, note_vars>>
    \/ LockUse /\ UNCHANGED <<filter_vars, lua_vars, rule_vars, init_vars, sched_vars,
                             flush_vars, pred_vars, note_vars>>
    \/ ProcessExit /\ UNCHANGED <<filter_vars, lua_vars, rule_vars, init_vars, sched_vars,
                                 flush_vars, pred_vars, note_vars>>

InitLife == Init /\ dir = IBD_REQ /\ in_nbytes = 0

\* the module and its lock from the start of the process to its exit
SpecLife == InitLife /\ [][NextLife]_vars

NextNotify ==
    \/ \E d \in Dirs : WriteComplete(d)
          /\ UNCHANGED <<filter_vars, lua_vars, rule_vars, init_vars, sched_vars,
                         flush_vars, pred_vars, life_vars>>
    \/ \E d \in Dirs : CloseConn(d)
          /\ UNCHANGED <<filter_vars, lua_vars, rule_vars, init_vars, sched_vars,
                         flush_vars, pred_vars, life_vars>>

InitNotify ==
    /\ FilterInit /\ LuaInit /\ RuleInit /\ BufferInitInit /\ SchedInit /\ FlushInit
    /\ PredInit /\ LifeInit
    /\ dir = IBD_REQ /\ in_nbytes = 0
    /\ \E flags \in SUBSET EndFlags :
       \E post \in [Dirs -> BOOLEAN] : \E log \in [Dirs -> BOOLEAN] :
          txn = [NoTxn EXCEPT !.flags = flags, !.post = post, !.log = log]

\* the write-complete events of one transaction, both directions
SpecNotify == InitNotify /\ [][NextNotify]_vars

(***************************************************************************)
(* Properties of the body filter                                           *)
(***************************************************************************)
\* the input bytes the filter has accepted so far
Accepted == SubSeq(Body(in_nbytes), 1, in_ndone)

\* the bytes of the source stream in the output, in the order written
RECURSIVE SourceBytes(_)
SourceBytes(out) ==
    IF out = <<>> THEN <<>>
    ELSE IF Head(out) > 0 THEN <<Head(out)>> \o SourceBytes(Tail(out))
    ELSE SourceBytes(Tail(out))

Increasing(q) == \A i, j \in 1..Len(q) : i < j => q[i] < q[j]

IsPrefix(a, b) == Len(a) <= Len(b) /\ SubSeq(b, 1, Len(a)) = a

\* the transaction was never switched to an error document
NoErrorDoc == status = 0

\* a flush with last = true has returned
FinalFlushed == fctx.output_vio.final

\* the last data event ended in a flush with last = true
AfterLastFlush == ev \in {"complete", "complete_first", "null_flush"}

\* C1. Byte conservation: when no edit was ever added and the transaction was
\* not switched to an error document, then once the final flush has returned
\* the output buffer holds exactly the input bytes accepted, in their order,
\* whatever the mode, the limit and the chunking.
C1_ByteConservation ==
    (NoErrorDoc /\ added = <<>> /\ FinalFlushed)
        => (~fault /\ fctx.output_buffer = Accepted /\ fctx.reader = <<>>)

\* a whole body of more than one chunk has gone through without edits, in a
\* buffering mode with a limit
C1_Witness ==
    /\ NoErrorDoc /\ added = <<>> /\ FinalFlushed
    /\ upstream = "WRITE_COMPLETE"
    /\ in_ndone = in_nbytes /\ in_nbytes = MaxLen
    /\ chunk.before.bytes_done + chunk.before.buffered > 0
    /\ fctx.buffering = IOBUF_BUFFER_FLUSHPART

\* two edits do not overlap, and do not start at the same offset
Apart(a, b) == a.start + a.bytes <= b.start \/ b.start + b.bytes <= a.start

NonOverlapping(es) ==
    \A i, j \in 1..Len(es) :
        i # j => Apart(es[i], es[j]) /\ es[i].start # es[j].start

\* the edits es in ascending order of start
Ascending(es) ==
    LET n == Len(es)
        perms == {p \in [1..n -> 1..n] : \A i, j \in 1..n : i # j => p[i] # p[j]}
    IN CHOOSE q \in {[i \in 1..n |-> es[p[i]]] : p \in perms} :
          \A i, j \in 1..n : i < j => q[i].start <= q[j].start

\* I from offset pos on, the range of each of the edits es (in ascending
\* order of start) replaced by the replacement of the edit
RECURSIVE Replaced(_, _, _)
Replaced(I, pos, es) ==
    IF es = <<>> THEN SubSeq(I, pos + 1, Len(I))
    ELSE SubSeq(I, pos + 1, Head(es).start) \o Head(es).repl
            \o Replaced(I, Head(es).start + Head(es).bytes, Tail(es))

\* the edits added are those C2 is about: pairwise apart, within the body,
\* each added before the byte at its start was emitted
C2_Edits ==
    /\ NoErrorDoc /\ ~discarded
    /\ early
    /\ NonOverlapping(added)
    /\ \A i \in 1..Len(added) : added[i].start + added[i].bytes <= in_nbytes

\* the whole body went through and the final flush returned
Ended == upstream = "WRITE_COMPLETE" /\ in_ndone = in_nbytes /\ ~fault

\* C2. Edit semantics: with such edits every flush returns, and once the
\* whole body has gone through the output is the body with the range of each
\* edit replaced by its replacement, the edits taken in ascending start order.
C2_EditSemantics ==
    C2_Edits
        => /\ ~fault
           /\ Ended => fctx.output_buffer
                          = Replaced(Body(in_nbytes), 0, Ascending(added))

\* C3. Final-size commitment: after every flush with last = true the byte
\* count set on the output write-intent is bytes_done + offs, and it is the
\* number of bytes written to the output buffer so far; such a flush always
\* returns.
C3_FinalSize ==
    AfterLastFlush
        => /\ ~fault
           /\ fctx.output_vio.final
           /\ fctx.output_vio.nbytes = fctx.bytes_done + fctx.offs
           /\ fctx.output_vio.nbytes = Len(fctx.output_buffer)

\* a last flush after an edit that changed the size was applied and another
\* was dropped
C3_Witness ==
    /\ AfterLastFlush /\ fctx.output_vio.final
    /\ fctx.offs # 0
    /\ "Bad/Inconsistent stream edit(s) ignored." \in Range(errlog)
    /\ chunk.before.bytes_done + chunk.before.buffered > 0

\* C4. Monotone emission: no step decreases bytes_done, the output buffer
\* only grows at its end, and the bytes of the source stream in it are in
\* strictly increasing source offset.
C4_MonotoneEmission ==
    [][/\ fctx'.bytes_done >= fctx.bytes_done
       /\ IsPrefix(fctx.output_buffer, fctx'.output_buffer)
       /\ Increasing(SourceBytes(fctx'.output_buffer))]_vars

\* bytes were emitted by more than one flush, around a replacement
C4_Witness ==
    /\ Len(SourceBytes(fctx.output_buffer)) >= 2
    /\ Len(SourceBytes(fctx.output_buffer)) < Len(fctx.output_buffer)
    /\ chunk.before.bytes_done > 0
    /\ chunk.after.bytes_done > chunk.before.bytes_done

\* the bytes in the staging buffer are the accepted bytes from bytes_done on
Resident ==
    /\ fctx.buffered = Len(fctx.reader)
    /\ fctx.reader = SubSeq(Body(in_nbytes), fctx.bytes_done + 1,
                            fctx.bytes_done + fctx.buffered)

\* C5 as stated: in every state between calls the number of input bytes
\* accepted is bytes_done + buffered.
C5_Accounting_Original ==
    ~fault => in_ndone = fctx.bytes_done + fctx.buffered

\* C5. Byte accounting, while no chunk has been dropped in mode discard: the
\* bytes accepted are those emitted or deleted (bytes_done) and those resident
\* in the staging buffer (buffered), the resident bytes being the accepted
\* bytes from offset bytes_done on. When a flush has failed to return, the
\* chunk of the call may be in the staging buffer and not yet marked consumed.
C5_Accounting ==
    ~discarded
        => /\ Resident
           /\ fctx.bytes_done + fctx.buffered
                 \in (IF fault THEN {in_ndone, in_ndone + chunk.n} ELSE {in_ndone})

\* a byte was deleted by an applied edit and another is resident, behind an
\* edit that waits for more data
C5_Witness ==
    /\ ~discarded /\ ~fault
    /\ fctx.buffered > 0
    /\ fctx.edits # <<>>
    /\ Len(SourceBytes(fctx.output_buffer)) < fctx.bytes_done

\* C9 as stated: in mode nobuf, after each chunk the staging buffer is empty
\* and bytes_done has advanced by the length of the chunk.
C9_Nobuf_Original ==
    (fctx.buffering = IOBUF_NOBUF /\ chunk.n > 0 /\ ~fault)
        => /\ chunk.after.buffered = 0
           /\ chunk.after.bytes_done = chunk.before.bytes_done + chunk.n

\* C9. Mode nobuf: when buffer_data_chunk returns a status other than
\* IB_EAGAIN the staging buffer is empty and bytes_done has advanced by the
\* length of the chunk and of what was staged before it; when it returns
\* IB_EAGAIN an edit is pending and what was not flushed stays staged.
C9_Nobuf ==
    (fctx.buffering = IOBUF_NOBUF /\ chunk.n > 0 /\ ~fault)
        => IF chunk.rc # IB_EAGAIN
           THEN /\ chunk.after.buffered = 0
                /\ chunk.after.bytes_done
                      = chunk.before.bytes_done + chunk.before.buffered + chunk.n
           ELSE /\ chunk.pending > 0
                /\ chunk.after.bytes_done + chunk.after.buffered
                      = chunk.before.bytes_done + chunk.before.buffered + chunk.n

\* a chunk was flushed whole in mode nobuf together with bytes an earlier
\* flush had left staged
C9_Witness ==
    /\ fctx.buffering = IOBUF_NOBUF /\ ~fault
    /\ chunk.n > 0 /\ chunk.rc # IB_EAGAIN
    /\ chunk.before.buffered > 0
    /\ chunk.after.buffered = 0

\* C10. Mode buffer_all: until a flush with last = true has returned,
\* bytes_done is 0, the output buffer is empty and every accepted byte is in
\* the staging buffer.
C10_BufferAll ==
    (fctx.buffering = IOBUF_BUFFER_ALL /\ ~FinalFlushed)
        => /\ ~fault
           /\ fctx.bytes_done = 0
           /\ fctx.output_buffer = <<>>
           /\ fctx.buffered = in_ndone

\* several chunks, one with an edit, are staged in mode buffer_all
C10_Witness ==
    /\ fctx.buffering = IOBUF_BUFFER_ALL /\ ~FinalFlushed
    /\ chunk.before.buffered > 0
    /\ fctx.buffered >= 2
    /\ in_ndone < in_nbytes
    /\ fctx.edits # <<>>

\* the last chunk came in mode m and buffer_data_chunk returned
ChunkIn(m) == fctx.buffering = m /\ chunk.n > 0 /\ ~fault

\* what the last chunk found: bytes staged and bytes emitted or deleted
Before == chunk.before.buffered + chunk.before.bytes_done

\* what the last chunk left: bytes staged and bytes emitted or deleted
After == chunk.after.buffered + chunk.after.bytes_done

\* C11 as stated: in mode buffer_flushall a chunk of n bytes that would take
\* the staging buffer over the limit leaves buffered = n, and any other chunk
\* leaves buffered grown by n with nothing flushed.
C11_Flushall_Original ==
    ChunkIn(IOBUF_BUFFER_FLUSHALL)
        => IF chunk.before.buffered + chunk.n > fctx.buf_limit
           THEN chunk.after.buffered = chunk.n
           ELSE /\ chunk.after.buffered = chunk.before.buffered + chunk.n
                /\ chunk.after.bytes_done = chunk.before.bytes_done

\* C11. Mode buffer_flushall: a chunk of n bytes with buffered + n over the
\* limit is preceded by a flush of all that is staged; when that flush returns
\* a status other than IB_EAGAIN, buffered = n afterwards and bytes_done has
\* advanced by what was staged; when it returns IB_EAGAIN an edit is pending
\* and what was not flushed stays staged with the chunk. A chunk with
\* buffered + n within the limit flushes nothing and buffered grows by n.
C11_Flushall ==
    ChunkIn(IOBUF_BUFFER_FLUSHALL)
        => IF chunk.before.buffered + chunk.n > fctx.buf_limit
           THEN IF chunk.rc # IB_EAGAIN
                THEN /\ chunk.after.buffered = chunk.n
                     /\ chunk.after.bytes_done = Before
                ELSE /\ chunk.pending > 0
                     /\ chunk.after.buffered >= chunk.n
                     /\ After = Before + chunk.n
           ELSE /\ chunk.rc = IB_OK
                /\ chunk.after.buffered = chunk.before.buffered + chunk.n
                /\ chunk.after.bytes_done = chunk.before.bytes_done

\* a chunk took the staging buffer over the limit and the staged bytes were
\* flushed before it
C11_Witness ==
    /\ ChunkIn(IOBUF_BUFFER_FLUSHALL)
    /\ chunk.before.buffered > 0
    /\ chunk.before.buffered + chunk.n > fctx.buf_limit
    /\ chunk.rc # IB_EAGAIN
    /\ chunk.after.buffered = chunk.n
    /\ chunk.after.bytes_done > chunk.before.bytes_done

\* C12 as stated: in mode buffer_flushpart a chunk that takes buffered over
\* the limit leaves exactly buf_limit bytes staged, the overflow flushed; any
\* other chunk flushes nothing.
C12_Flushpart_Original ==
    ChunkIn(IOBUF_BUFFER_FLUSHPART)
        => IF chunk.before.buffered + chunk.n > fctx.buf_limit
           THEN /\ chunk.after.buffered = fctx.buf_limit
                /\ chunk.after.bytes_done = Before + chunk.n - fctx.buf_limit
           ELSE /\ chunk.after.buffered = chunk.before.buffered + chunk.n
                /\ chunk.after.bytes_done = chunk.before.bytes_done

\* C12. Mode buffer_flushpart: after a chunk that takes buffered over the
\* limit, when flush_data returns a status other than IB_EAGAIN exactly
\* buf_limit bytes are staged and bytes_done has advanced by the overflow;
\* when it returns IB_EAGAIN an edit is pending and the flush ended at the
\* start of that edit, short of the overflow or past it. A chunk that leaves
\* buffered within the limit flushes nothing.
C12_Flushpart ==
    ChunkIn(IOBUF_BUFFER_FLUSHPART)
        => IF chunk.before.buffered + chunk.n > fctx.buf_limit
           THEN IF chunk.rc # IB_EAGAIN
                THEN /\ chunk.after.buffered = fctx.buf_limit
                     /\ chunk.after.bytes_done = Before + chunk.n - fctx.buf_limit
                ELSE /\ chunk.pending > 0
                     /\ After = Before + chunk.n
           ELSE /\ chunk.rc = IB_OK
                /\ chunk.after.buffered = chunk.before.buffered + chunk.n
                /\ chunk.after.bytes_done = chunk.before.bytes_done

\* a chunk took buffered over a limit of one byte and the overflow was flushed
C12_Witness ==
    /\ ChunkIn(IOBUF_BUFFER_FLUSHPART)
    /\ fctx.buf_limit > 0
    /\ chunk.before.buffered > 0
    /\ chunk.rc # IB_EAGAIN
    /\ chunk.after.buffered = fctx.buf_limit
    /\ chunk.after.bytes_done > chunk.before.bytes_done

\* C13. Mode discard: once the status of the transaction is that of an error
\* document, no step adds a byte of the input to the output buffer.
C13_Discard ==
    [][HTTP_CODE(status)
          => SourceBytes(fctx'.output_buffer) = SourceBytes(fctx.output_buffer)]_vars

\* the settings of the other direction, each way they can be set
OtherDirection(cfg) ==
    IF dir = IBD_REQ
    THEN {[cfg EXCEPT !.buffer_res = b, !.response_body_buffer_limit = l,
                      !.response_body_buffer_limit_action = a] :
             b \in {0, 1}, l \in -1..MaxLimit,
             a \in {IB_BUFFER_LIMIT_ACTION_FLUSH_ALL,
                    IB_BUFFER_LIMIT_ACTION_FLUSH_PARTIAL}}
    ELSE {[cfg EXCEPT !.buffer_req = b, !.request_body_buffer_limit = l,
                      !.request_body_buffer_limit_action = a] :
             b \in {0, 1}, l \in -1..MaxLimit,
             a \in {IB_BUFFER_LIMIT_ACTION_FLUSH_ALL,
                    IB_BUFFER_LIMIT_ACTION_FLUSH_PARTIAL}}

C15_Selection ==
    binit.called /\ binit.cfg_rc = IB_OK
        => LET c == binit.cfg
               on == IF dir = IBD_REQ THEN c.buffer_req ELSE c.buffer_res
               limit == IF dir = IBD_REQ THEN c.request_body_buffer_limit
                                         ELSE c.response_body_buffer_limit
               action == IF dir = IBD_REQ THEN c.request_body_buffer_limit_action
                                          ELSE c.response_body_buffer_limit_action
           IN /\ on = 0 => binit.selected = IOBUF_NOBUF
              /\ on # 0 /\ limit < 0 => binit.selected = IOBUF_BUFFER_ALL
              /\ on # 0 /\ limit >= 0 /\ action = IB_BUFFER_LIMIT_ACTION_FLUSH_ALL
                    => binit.selected = IOBUF_BUFFER_FLUSHALL
              /\ on # 0 /\ limit >= 0 /\ action # IB_BUFFER_LIMIT_ACTION_FLUSH_ALL
                    => binit.selected = IOBUF_BUFFER_FLUSHPART
              /\ \A c2 \in OtherDirection(c) :
                    ReadConfig(NewFctx, dir, c2, IB_OK).buffering = binit.selected

\* the response direction is set to flush partially while the request
\* direction is set not to buffer
C15_Witness ==
    /\ binit.called /\ binit.cfg_rc = IB_OK
    /\ dir = IBD_RESP
    /\ binit.cfg.buffer_req = 0
    /\ binit.cfg.buffer_res = 1
    /\ binit.cfg.response_body_buffer_limit = MaxLimit
    /\ binit.cfg.response_body_buffer_limit_action = IB_BUFFER_LIMIT_ACTION_FLUSH_PARTIAL
    /\ binit.selected = IOBUF_BUFFER_FLUSHPART

\* the place of the rule with this id in the order of registration
RegPos(id) == CHOOSE i \in 1..Len(reg_order) : reg_order[i] = id

\* the place in the order of the claim of the phase each directive of
\* SchedVars names: request_header < request_body < response_header <
\* response_body < postprocess
TagRank(id) ==
    CASE id \in {"hdr1", "hdr2"} -> 1
      [] id = "body" -> 2
      [] id = "rhdr" -> 3
      [] id = "rbody" -> 4
      [] id = "post" -> 5

C24_OnError ==
    [][ev' = "error" /\ upstream # "ERROR"
          => /\ upstream' = "ERROR"
             /\ fctx'.buffered = 0
             /\ fctx'.reader = <<>>
             /\ fctx'.output_buffer = fctx.output_buffer]_vars

(***************************************************************************)
(* Properties of the script gate                                           *)
(***************************************************************************)
\* C6. Script gate mutual exclusion: at most one thread at a time is inside
\* ib_lua_new_thread or ib_lua_join_thread, and a thread inside either holds
\* g_lua_lock.
C6_MutualExclusion ==
    /\ \A t, u \in Threads : (InCritical(t) /\ InCritical(u)) => t = u
    /\ \A t \in Threads : InCritical(t) => g_lua_lock = t

\* one thread disposes of its context while another waits to create one and
\* a context is live
C6_Witness ==
    \E t, u \in Threads :
        /\ t # u
        /\ pc[t] = "join_thread"
        /\ pc[u] = "lock_new"
        /\ g_lua_lock = t

\* the thread has a per-invocation context: created, not yet disposed of
HasContext(t) == pc[t] \in {"unlock_new", "call", "lock_join", "join_thread"}

\* C7. Script isolation: an evaluation calls its function in a live
\* per-invocation context, never in the root context, and no other evaluation
\* that has a context at that time has the same one.
C7_Isolation ==
    \A t \in Threads :
        pc[t] = "call"
            => /\ EvalContext(t) \in lua_threads
               /\ EvalContext(t) # RootState
               /\ \A u \in Threads \ {t} :
                     /\ pc[u] = "call" => EvalContext(u) # EvalContext(t)
                     /\ HasContext(u) => L[u] # EvalContext(t)

\* two evaluations are in their calls at once
C7_Witness ==
    \E t, u \in Threads : t # u /\ pc[t] = "call" /\ pc[u] = "call"

\* the rule of the evaluation produced true: the operator returned IB_OK and
\* a result other than 0; a rule whose operator fails produces false
RuleTrue(rc, res) == rc = IB_OK /\ res \notin {Unset, 0}

\* C23. Gate acquisition failure: an evaluation that fails to take the lock
\* for ib_lua_new_thread returns a status other than IB_OK, has not called
\* the function, has created no context and has not written *result; its
\* rule has not produced true.
C23_GateFailure ==
    [][\A t \in Threads :
          pc[t] = "lock_new" /\ pc'[t] = "idle"
             => /\ eval_rc'[t] \notin {IB_OK, "running", "none"}
                /\ ~called'[t]
                /\ result'[t] = Unset
                /\ L'[t] = NoState
                /\ lua_threads' = lua_threads
                /\ ~RuleTrue(eval_rc'[t], result'[t])]_vars

\* an evaluation ended at the lock while the other thread held it for
\* creating its context
C23_Witness ==
    \E t, u \in Threads :
        /\ pc[t] = "idle" /\ eval_rc[t] = IB_EUNKNOWN
        /\ L[t] = NoState /\ ~called[t] /\ result[t] = Unset
        /\ g_lua_lock = u /\ pc[u] = "new_thread"

\* thread t is between ib_lock_lock and the return of call_in_critical_section
InSection(t) ==
    pc[t] \in {"new_thread", "unlock_new", "unlock_new_failed",
               "join_thread", "unlock_join"}

\* C36 as stated: no thread holds the lock while its script function runs,
\* and the lock is held only during context creation and context disposal.
C36_OutsideGate_Original ==
    \A t \in Threads :
        /\ pc[t] = "call" => g_lua_lock # t
        /\ g_lua_lock = t => InSection(t)

\* C36: no thread holds the lock while its script function runs: the call
\* begins only after ib_lock_unlock returned IB_OK; the lock is held outside
\* context creation and context disposal only by a thread whose
\* ib_lock_unlock failed.
C36_OutsideGate ==
    \A t \in Threads :
        /\ pc[t] = "call" => g_lua_lock # t /\ unlock_rc[t] = IB_OK
        /\ g_lua_lock = t /\ ~InSection(t) => unlock_rc[t] = IB_EUNKNOWN

\* a script call runs in one thread while another creates its context
\* under the lock
C36_Witness ==
    \E t, u \in Threads :
        /\ pc[t] = "call" /\ called[t]
        /\ pc[u] = "new_thread" /\ g_lua_lock = u

\* C37: every per-invocation context an evaluation creates is disposed of
\* before the evaluation returns, on every path: the contexts alive belong to
\* evaluations that have not returned.
C37_NoLeak ==
    lua_threads \subseteq {L[t] : t \in {u \in Threads : pc[u] # "idle"}}

\* C38 as stated: a thread that has returned from call_in_critical_section
\* does not hold the lock.
C38_Released_Original ==
    \A t \in Threads : ~InSection(t) => g_lua_lock # t

\* C38: call_in_critical_section, once it has the lock, calls ib_lock_unlock
\* before it returns, whether fn succeeded or failed; when ib_lock_unlock
\* returns IB_OK the thread no longer holds the lock, when it fails its
\* status is returned; a thread that holds the lock reaches ib_lock_unlock.
C38_Released ==
    /\ [][\A t \in Threads :
            InSection(t) /\ ~InSection(t)'
                => /\ pc[t] \in {"unlock_new", "unlock_new_failed", "unlock_join"}
                   /\ unlock_rc[t] = "none" /\ unlock_rc'[t] # "none"
                   /\ unlock_rc'[t] = IB_OK => g_lua_lock' # t
                   /\ unlock_rc'[t] # IB_OK
                         => pc'[t] = "idle" /\ eval_rc'[t] = unlock_rc'[t]]_vars
    /\ \A t \in Threads :
          (g_lua_lock = t /\ unlock_rc[t] = "none") ~> (unlock_rc[t] # "none")

\* the protected function failed and the lock was released all the same
C38_Witness ==
    \E t \in Threads :
        /\ pc[t] = "idle" /\ eval_rc[t] = IB_EALLOC
        /\ unlock_rc[t] = IB_OK /\ g_lua_lock = NoThread

(***************************************************************************)
(* Properties of the directives                                            *)
(***************************************************************************)
StepNames(steps) == [i \in 1..Len(steps) |-> steps[i].step]

ModifierSteps(n) == [i \in 1..n |-> "parse_modifier"]

\* the steps of a directive that registers its rule
StepsToRegister(d) ==
    IF d.kind = "Rule"
    THEN <<"ib_rule_create", "parse_inputs", "parse_operator">>
            \o ModifierSteps(Len(d.vars) - 2) \o <<"ib_rule_register">>
    ELSE <<"ib_rule_create">> \o ModifierSteps(Len(d.vars) - 1)
            \o <<"ib_lua_load_func", "ib_operator_register", "ib_rule_set_operator",
                 "ib_rule_register">>

\* C8. Parse failure aborts the directive: a directive changes the rule lists
\* only if it took every step up to ib_rule_register, each with status IB_OK,
\* and then it appends its one rule to the list of its phase; a directive
\* whose handler returns a status other than IB_OK leaves every rule list as
\* it was.
C8_FailureAborts ==
    [][LET d == last_dir'
       IN /\ d.rc # IB_OK => (rule_lists' = rule_lists /\ ~d.registered)
          /\ rule_lists' # rule_lists
                => /\ d.rc = IB_OK
                   /\ StepNames(d.steps) = StepsToRegister(d)
                   /\ \A i \in 1..Len(d.steps) : d.steps[i].rc = IB_OK
                   /\ rule_lists' = [rule_lists EXCEPT ![d.phase] = @ \o <<d.rule>>]
          /\ d.rc = IB_OK => rule_lists' # rule_lists]_vars

\* a RuleExt directive failed at its last modifier, after one that set the id
C8_Witness ==
    /\ last_dir.kind = "RuleExt"
    /\ last_dir.rc = IB_EINVAL
    /\ Len(last_dir.vars) = 3
    /\ Len(last_dir.steps) = 3
    /\ last_dir.rule.id # NullStr
    /\ \A ph \in Phases : rule_lists[ph] = <<>>

\* the last step a handler took
LastStep(d) == d.steps[Len(d.steps)]

\* the directive ended at step n with status IB_EINVAL, or before it at a
\* step that failed
InvalidAt(d, n) ==
    /\ d.rc # IB_OK /\ ~d.registered
    /\ d.steps # <<>>
    /\ Len(d.steps) <= n
    /\ LastStep(d).rc = d.rc
    /\ Len(d.steps) = n => d.rc = IB_EINVAL

\* the string is empty or holds whitespace only
Blank(str) == \A i \in 1..Len(str) : Ch(str, i) \in {" ", "\t", "\n", "\r", "\f"}

\* C17. Empty inputs are rejected: a Rule directive whose inputs string is
\* empty or all whitespace fails, with IB_EINVAL at parse_inputs (or at the
\* missing operator) unless ib_rule_create failed before; the rule has no
\* input and no rule list changes.
C17_EmptyInputs ==
    [][LET d == last_dir'
       IN d.kind = "Rule" /\ Len(d.vars) >= 1 /\ Blank(d.vars[1])
             => /\ d.rule.inputs = <<>>
                /\ rule_lists' = rule_lists
                /\ IF Len(d.vars) = 1
                   THEN /\ d.rc = IB_EINVAL /\ ~d.registered
                        /\ StepNames(d.steps) = <<"op">>
                   ELSE /\ InvalidAt(d, 2)
                        /\ Len(d.steps) = 2 => LastStep(d).step = "parse_inputs"
                        /\ Len(d.steps) = 1 => /\ LastStep(d).step = "ib_rule_create"
                                               /\ d.rc = IB_EALLOC]_vars

\* a Rule directive with an inputs string of whitespace, an operator that
\* parses and a modifier failed at parse_inputs
C17_Witness ==
    /\ last_dir.kind = "Rule"
    /\ Len(last_dir.vars) = 3
    /\ last_dir.vars[1] = " \t"
    /\ last_dir.vars[2] = "@rx a"
    /\ StepNames(last_dir.steps) = <<"ib_rule_create", "parse_inputs">>
    /\ last_dir.rc = IB_EINVAL
    /\ \A ph \in Phases : rule_lists[ph] = <<>>

\* the index of the first '@' of the string, 0 when it has none
FirstAt(str) ==
    LET ats == {i \in 1..Len(str) : Ch(str, i) = "@"}
    IN IF ats = {} THEN 0 ELSE CHOOSE i \in ats : \A j \in ats : i <= j

\* the indices before the first '@' that hold a '!'
Bangs(str) == {i \in 1..(FirstAt(str) - 1) : Ch(str, i) = "!"}

\* the operator string is one the claim rejects for its prefix
BadPrefix(str) ==
    \/ FirstAt(str) = 0
    \/ FirstAt(str) = Len(str)
    \/ \E i \in 1..(FirstAt(str) - 1) : Ch(str, i) \notin {" ", "\t", "!"}
    \/ Cardinality(Bangs(str)) > 1

\* C18. Operator string prefix: in a Rule directive that reaches
\* parse_operator, an operator string with a character other than blanks and
\* one '!' before its first '@', with no '@', or with nothing after the '@',
\* fails with IB_EINVAL and the rule gets no operator; any other string whose
\* operator instance is created has the invert flag exactly when a '!'
\* precedes the '@', and the operator rx is created unless the engine fails.
C18_OperatorPrefix ==
    [][LET d == last_dir'
       IN d.kind = "Rule" /\ Len(d.steps) >= 3
             => LET str == d.vars[2]
                    st == d.steps[3]
                IN /\ st.step = "parse_operator"
                   /\ BadPrefix(str)
                         => /\ st.rc = IB_EINVAL /\ d.rc = IB_EINVAL
                            /\ Len(d.steps) = 3
                            /\ d.rule.opinst = NoOpInst
                            /\ ~d.registered
                   /\ ~BadPrefix(str) /\ st.rc = IB_OK
                         => /\ d.rule.opinst # NoOpInst
                            /\ IB_OPINST_FLAG_INVERT \in d.rule.opinst.flags
                                  <=> Bangs(str) # {}
                   /\ ~BadPrefix(str) /\ st.rc # IB_OK => d.rule.opinst = NoOpInst
                   /\ str \in {"@rx a", "!@rx", " ! @rx a"}
                         => st.rc \in {IB_OK, IB_EALLOC}]_vars

\* a rule was registered with an inverted operator whose '!' and '@' stand
\* among blanks
C18_Witness ==
    /\ last_dir.kind = "Rule"
    /\ Len(last_dir.vars) >= 2
    /\ last_dir.vars[2] = " ! @rx a"
    /\ last_dir.registered
    /\ last_dir.rule.opinst.name = "rx"
    /\ last_dir.rule.opinst.flags = {IB_OPINST_FLAG_INVERT}

\* the phase the claim gives each phase modifier of ModifierStrs: -1 for a
\* tag that names no phase and for a missing tag, -2 for any other modifier
TagPhase(mod) ==
    CASE mod = "Phase:Request_Header" -> PHASE_REQUEST_HEADER
      [] mod = "phase:REQUEST" -> PHASE_REQUEST_BODY
      [] mod = "phase:RESPONSE_HEADER" -> PHASE_RESPONSE_HEADER
      [] mod = "PHASE:response" -> PHASE_RESPONSE_BODY
      [] mod = "phase:postprocess" -> PHASE_POSTPROCESS
      [] mod = "phase:NONE" -> PHASE_NONE
      [] mod \in {"phase:bogus", "phase", "phase:"} -> -1
      [] OTHER -> -2

\* the modifiers of a directive, and the number of steps before the first
ModifiersOf(d) ==
    IF d.kind = "Rule" THEN SubSeq(d.vars, 3, Len(d.vars)) ELSE Tail(d.vars)
StepsBefore(d) == IF d.kind = "Rule" THEN 3 ELSE 1

\* the phase of the last phase modifier, none when there is none
LastPhase(mods) ==
    LET at == {i \in 1..Len(mods) : TagPhase(mods[i]) # -2}
    IN IF at = {} THEN PHASE_NONE
       ELSE TagPhase(mods[CHOOSE i \in at : \A j \in at : j <= i])

\* C19. Phase modifier mapping: a directive with a phase modifier whose tag
\* names no phase, or without tag, fails with IB_EINVAL at that modifier
\* (unless it failed before) and registers nothing; a directive that registers
\* its rule appends it to the list of the phase the claim's table gives for its
\* last phase modifier, whatever the case of name and tag, and to the list of
\* phase none when it has no phase modifier.
C19_PhaseMapping ==
    [][LET d == last_dir'
       IN d.kind \in {"Rule", "RuleExt"} /\ Len(d.vars) >= StepsBefore(d) - 1
             => LET mods == ModifiersOf(d)
                IN /\ \A i \in 1..Len(mods) :
                         TagPhase(mods[i]) = -1
                            => /\ InvalidAt(d, StepsBefore(d) + i)
                               /\ rule_lists' = rule_lists
                   /\ d.registered
                         => /\ d.phase = LastPhase(mods)
                            /\ rule_lists' = [rule_lists EXCEPT
                                                 ![LastPhase(mods)] = @ \o <<d.rule>>]]_vars

\* a rule was registered for the response body by the second of two phase
\* modifiers, written in other letter case than the tags of the source
C19_Witness ==
    /\ last_dir.kind = "Rule"
    /\ ModifiersOf(last_dir) = <<"Phase:Request_Header", "PHASE:response">>
    /\ last_dir.registered
    /\ last_dir.phase = PHASE_RESPONSE_BODY
    /\ rule_lists[PHASE_RESPONSE_BODY] = <<last_dir.rule>>
    /\ rule_lists[PHASE_REQUEST_HEADER] = <<>>

\* the uris of UriStrs that do not begin with the scheme lua:, in any letter
\* case
OtherScheme(uri) == uri \in {"xml:/c", "lua"}

\* C20. RuleExt scheme handling: the rule a RuleExt directive has created
\* carries the external flag; a directive whose uri does not begin with lua:
\* fails, with IB_EINVAL unless an earlier step failed with another status,
\* calls neither the script loader nor the operator registry, leaves the rule
\* without operator and registers nothing.
C20_RuleExtScheme ==
    [][LET d == last_dir'
       IN d.kind = "RuleExt"
             => /\ d.steps # <<>> /\ d.steps[1].step = "ib_rule_create"
                /\ d.steps[1].rc = IB_OK => IB_RULE_FLAG_EXTERNAL \in d.rule.flags
                /\ OtherScheme(d.vars[1])
                      => /\ InvalidAt(d, Len(d.vars) + 1)
                         /\ Len(d.steps) = Len(d.vars) + 1 => LastStep(d).step = "scheme"
                         /\ \A i \in 1..Len(d.steps) :
                               d.steps[i].step \in {"ib_rule_create", "parse_modifier", "scheme"}
                         /\ lua_funcs' = lua_funcs
                         /\ op_registry' = op_registry
                         /\ d.rule.opinst = NoOpInst
                         /\ rule_lists' = rule_lists]_vars

\* a RuleExt directive with the uri of another scheme parsed its modifier and
\* failed at the scheme
C20_Witness ==
    /\ last_dir.kind = "RuleExt"
    /\ last_dir.vars = <<"xml:/c", "id:r1">>
    /\ StepNames(last_dir.steps) = <<"ib_rule_create", "parse_modifier", "scheme">>
    /\ last_dir.rc = IB_EINVAL
    /\ IB_RULE_FLAG_EXTERNAL \in last_dir.rule.flags
    /\ last_dir.rule.id = "r1"
    /\ lua_funcs = {}
    /\ op_registry = CoreOperators

\* the modifier sets the rule id
IsIdModifier(mod) == mod = "id:r1"

\* C21. RuleExt without id: a RuleExt directive none of whose modifiers sets
\* the id fails, with IB_EINVAL unless the engine failed a call, loads no
\* function under an absent name and registers nothing.
C21_ExtWithoutId ==
    [][LET d == last_dir'
       IN d.kind = "RuleExt" /\ (\A i \in 1..Len(Tail(d.vars)) : ~IsIdModifier(Tail(d.vars)[i]))
             => /\ d.rc \in {IB_EINVAL, IB_EALLOC}
                /\ ~d.registered
                /\ rule_lists' = rule_lists
                /\ \A f \in lua_funcs' : f.name # NullStr]_vars

\* C22. Registered-rule well-formedness: every registered rule without the
\* external flag has at least one input and an operator instance.
C22_WellFormed ==
    \A ph \in Phases : \A i \in 1..Len(rule_lists[ph]) :
        LET r == rule_lists[ph][i]
        IN IB_RULE_FLAG_EXTERNAL \notin r.flags
              => r.inputs # <<>> /\ r.opinst # NoOpInst

(***************************************************************************)
(* Properties of flush_data                                                *)
(***************************************************************************)
\* what the call wrote to the output buffer
Emitted ==
    SubSeq(flush.s.output_buffer, Len(flush.f.output_buffer) + 1,
           Len(flush.s.output_buffer))

\* the call left the loop at lines 119-122: an edit reaches beyond
\* bytes_done + nbytes and last is false; the edit is the last of the array
Straddled == flush.called /\ flush.s.brk

StraddlingEdit == flush.s.edits[Len(flush.s.edits)]

\* C26: when the first edit that starts at or after bytes_done reaches beyond
\* bytes_done + nbytes and last is false, the flush returns IB_EAGAIN, that
\* edit and every edit that starts later stay in the list unchanged, and the
\* call emits only source bytes before the start of the edit.
C26_Straddle ==
    Straddled =>
        /\ ~flush.s.fault
        /\ flush.s.rc = IB_EAGAIN
        /\ StraddlingEdit \in Range(flush.f.edits)
        /\ \A i \in 1..Len(flush.f.edits) :
              flush.f.edits[i].start > StraddlingEdit.start
                  => flush.f.edits[i] \in Range(flush.s.edits)
        /\ \A i \in 1..Len(Emitted) :
              Emitted[i] > 0 => Emitted[i] <= StraddlingEdit.start

\* the bytes the call was asked to flush
Asked == IF flush.nbytes = -1 THEN flush.f.buffered ELSE flush.nbytes

\* the bytes the call took from the staging buffer
Consumed == flush.f.buffered - flush.s.buffered

\* C27: for any edit list, a flush returns (the assertions n > 0 of the copy
\* loops hold), takes from the staging buffer at most the nbytes it was asked
\* to flush and at most buffered bytes, and leaves buffered >= 0.
C27_Horizon ==
    flush.called =>
        /\ ~flush.s.fault
        /\ Consumed <= Asked
        /\ Consumed <= flush.f.buffered
        /\ flush.s.buffered >= 0

\* what the edits the call applied add to offs
AppliedOffs ==
    SumSeq([i \in 1..Len(flush.s.applied) |->
               Len(flush.s.applied[i].repl) - flush.s.applied[i].bytes])

\* C28: a flush that returns and has removed an edit whose start was below
\* bytes_done when it was examined returns IB_EBADVAL, also when it stops at
\* a later straddling edit; the removed edits leave no trace: their
\* replacements are not written, offs moves by the applied edits alone, and
\* the output grows by the bytes taken from the staging buffer plus that.
C28_Overlap ==
    flush.called /\ ~flush.last /\ ~flush.s.fault /\ flush.s.dropped # <<>> =>
        /\ flush.s.rc = IB_EBADVAL
        /\ \A d \in Range(flush.s.dropped) : d \notin Range(flush.s.edits)
        /\ \A d \in Range(flush.s.dropped) : \A i \in 1..Len(Emitted) :
              Emitted[i] \notin Range(d.repl)
        /\ flush.s.offs = flush.f.offs + AppliedOffs
        /\ Len(Emitted) = Consumed + AppliedOffs
        /\ flush.s.bytes_done = flush.f.bytes_done + Consumed

\* C30: a flush of all data with last = 1 returns, and not IB_EAGAIN; after it
\* the staging buffer is empty (buffered = 0) and the edit list is empty:
\* every edit that was pending has been applied or dropped, and a flush that
\* dropped one returns IB_EBADVAL.
C30_FinalDrain ==
    flush.called /\ flush.last =>
        /\ ~flush.s.fault
        /\ flush.s.rc \in {IB_OK, IB_EBADVAL}
        /\ flush.s.buffered = 0 /\ flush.s.reader = <<>>
        /\ flush.s.edits = <<>>
        /\ \A e \in Range(flush.f.edits) :
              e \in Range(flush.s.applied) \cup Range(flush.s.dropped)
        /\ Len(flush.s.applied) + Len(flush.s.dropped) = Len(flush.f.edits)
        /\ flush.s.dropped # <<>> <=> flush.s.rc = IB_EBADVAL

\* a final flush that applied one pending edit and dropped another, with
\* data staged
C30_Witness ==
    /\ flush.called /\ flush.last /\ ~flush.s.fault
    /\ flush.f.buffered > 1
    /\ flush.s.applied # <<>> /\ flush.s.dropped # <<>>
    /\ flush.s.buffered = 0 /\ flush.s.edits = <<>>

\* C33: when the two pending edits start at the same offset, the flush
\* examines them in the order in which they were added: if it applies both,
\* the first added is applied first (its replacement comes first in the
\* output), and of two deletions the first added is applied and the second
\* is dropped.
C33_TieBreak ==
    /\ flush.called /\ ~flush.s.fault
    /\ Len(flush.f.edits) = 2
    /\ flush.f.edits[1].start = flush.f.edits[2].start
    => /\ Len(flush.s.applied) = 2 => flush.s.applied = flush.f.edits
       /\ /\ flush.f.edits[1].bytes > 0 /\ flush.f.edits[2].bytes > 0
          /\ Len(flush.s.applied) = 1 /\ Len(flush.s.dropped) = 1
          => flush.s.applied = <<flush.f.edits[1]>>

(***************************************************************************)
(* Properties of the counters of the filter context                        *)
(***************************************************************************)
\* what an edit adds to the size of the body
SizeChange(e) == Len(e.repl) - e.bytes

\* C31: in every state offs is the sum of (replacement length - bytes
\* deleted) over the edits applied so far; the edits dropped and the edits
\* still in the list add nothing, and no edit is both applied and pending.
C31_Offs ==
    /\ fctx.offs = SumSeq([i \in 1..Len(fctx.applied) |-> SizeChange(fctx.applied[i])])
    /\ Len(fctx.applied) + Len(fctx.edits) <= Len(added)
    /\ \A i \in 1..Len(fctx.applied) : fctx.applied[i] \in Range(added)

\* two edits were added, both change the size; one was applied and the other
\* dropped
C31_Witness ==
    /\ Len(added) = 2 /\ SizeChange(added[1]) # 0 /\ SizeChange(added[2]) # 0
    /\ Len(fctx.applied) = 1 /\ fctx.edits = <<>>
    /\ fctx.offs = SizeChange(fctx.applied[1])
    /\ ~fault

\* C32: in every state, after any sequence of chunks, flushes, applied edits,
\* discards and the end of the stream, buffered is not negative and is the
\* number of bytes in the reader of the staging buffer.
C32_Buffered ==
    fctx.buffered >= 0 /\ fctx.buffered = Len(fctx.reader)

\* bytes are staged after a flush has emitted others and applied an edit
C32_Witness ==
    /\ fctx.buffered > 0 /\ fctx.buffered = Len(fctx.reader)
    /\ fctx.bytes_done > 0 /\ fctx.applied # <<>>
    /\ ~fault

(***************************************************************************)
(* Properties of the order of steps in a data event                        *)
(***************************************************************************)
NotifyEntry == "Error notifying body data."

\* the step is a data event that took a block from the input
TookBlock == in_ndone' > in_ndone

\* the step is a data event that took input and returned
TookInput == TookBlock /\ ~fault'

\* C34: for every input block the notification of the engine runs before
\* buffer_data_chunk: the edits pending at the call of the first block of an
\* event are those pending before the event and those the notification of
\* the block added, and the block was not yet in the staging buffer; at the
\* call of a later block no edit is pending that was not pending before the
\* event or added by a notification of the event; a failing notification is
\* logged and the block is taken as after a successful one.
C34_NotifyFirst ==
    [][TookInput =>
          /\ chunk'.n = in_ndone' - chunk'.ndone
          /\ chunk'.ndone >= in_ndone
          /\ chunk'.pending <= Len(fctx.edits) + Len(added') - Len(added)
          /\ chunk'.ndone = in_ndone
                => /\ chunk'.pending = Len(fctx.edits) + Len(added') - Len(added)
                   /\ chunk'.before = [buffered   |-> fctx.buffered,
                                       bytes_done |-> fctx.bytes_done]
          /\ NotifyEntry \in Range(errlog') /\ ~discarded'
                => fctx'.bytes_done + fctx'.buffered = in_ndone']_vars

\* the only block of the first event: its notification added an edit and
\* the flush of the block applied it
C34_Witness ==
    /\ ev = "ready" /\ in_ndone = chunk.n /\ ~fault
    /\ Len(added) = 1 /\ chunk.pending = 1
    /\ fctx.applied = added

\* C35: write-complete goes upstream only after flush_data(fctx, -1, 1) has
\* run in the same event, so never while bytes are in the staging buffer; a
\* data event that took input and returned signals write-complete when no
\* input is left to do and write-ready otherwise, one of the two.
C35_EndOfStream ==
    [][/\ upstream' = "WRITE_COMPLETE" => fctx'.buffered = 0 /\ fctx'.reader = <<>>
       /\ upstream' = "WRITE_COMPLETE" /\ ev' \in {"complete", "complete_first"}
             => final_rc' # "none" /\ fctx'.output_vio.final
       /\ TookInput
             => /\ upstream' \in {"WRITE_READY", "WRITE_COMPLETE"}
                /\ upstream' = "WRITE_COMPLETE" <=> in_ndone' = in_nbytes
                /\ upstream' = "WRITE_COMPLETE" <=> final_rc' # "none"
                /\ upstream' = "WRITE_READY" <=> ev' = "ready"]_vars

\* the last block was left in the staging buffer by buffer_data_chunk; the
\* final flush of the event emitted it before write-complete
C35_Witness ==
    /\ ev = "complete" /\ upstream = "WRITE_COMPLETE" /\ ~fault
    /\ chunk.after.buffered > 0
    /\ fctx.buffered = 0 /\ final_rc # "none"

(***************************************************************************)
(* Properties of the log                                                   *)
(***************************************************************************)
BadEditEntry == "Bad/Inconsistent stream edit(s) ignored."

\* the entries of the last data event that report dropped edits
BadEditEntries == Cardinality({i \in 1..Len(errlog) : errlog[i] = BadEditEntry})

\* the flushes of the last data event that returned IB_EBADVAL: that of its
\* buffer_data_chunk call and its final flush
BadEditFlushes ==
    (IF ev \in {"ready", "complete"} /\ chunk.rc = IB_EBADVAL THEN 1 ELSE 0)
    + (IF final_rc = IB_EBADVAL THEN 1 ELSE 0)

\* C29: a data event that returns writes one error log entry for each of its
\* flushes that returned IB_EBADVAL, whether the flush of the chunk or the
\* final flush of any end-of-stream path, and it still consumes the chunk and
\* signals write-ready or write-complete upstream.
C29_Logged ==
    ~fault /\ ev \in {"ready", "complete", "complete_first", "null_flush"} =>
        /\ BadEditEntries = BadEditFlushes
        /\ ev = "ready" => upstream = "WRITE_READY" /\ in_ndone < in_nbytes
        /\ ev \in {"complete", "complete_first"}
              => upstream = "WRITE_COMPLETE" /\ in_ndone = in_nbytes

(***************************************************************************)
(* Properties of setName                                                   *)
(***************************************************************************)
\* C25: (setName n v) is accepted only with exactly two arguments whose first
\* is a string literal (not null), and then evaluates to the value of v; for
\* (setName 'a' 'b') that is true and the string "b"; with zero, one or three
\* arguments, or with a null name, the evaluation fails with einval.
C25_SetName ==
    outcome # NoOutcome =>
        /\ Len(sexpr) = 2 /\ sexpr[1] # Null => outcome = sexpr[2]
        /\ Len(sexpr) \in {0, 1, 3} => outcome = Thrown(EINVAL)
        /\ Len(sexpr) >= 1 /\ sexpr[1] = Null => outcome = Thrown(EINVAL)
        /\ sexpr = <<Str("a"), Str("b")>> => Truthy(outcome) /\ eval_s(outcome) = "b"

\* the first call of the test has been evaluated
C25_Witness ==
    /\ sexpr = <<Str("a"), Str("b")>>
    /\ outcome = Str("b")


(***************************************************************************)
(* Properties of the life of the script lock                               *)
(***************************************************************************)
\* C39: over any sequence of rules_init (returning from any of its steps),
\* rules_fini and process exit, g_lua_lock is destroyed at most once after
\* each initialisation, and ib_lock_lock is never called on the lock after
\* it was destroyed
C39_Lifecycle ==
    /\ life.destroys <= 1
    /\ ~life.locked_dead

(***************************************************************************)
(* Properties of the end of the transaction                                *)
(***************************************************************************)
\* the notifications the step issues
Issued == SubSeq(txn'.notes, Len(txn.notes) + 1, Len(txn'.notes))

\* finished comes first, postprocess second, logging third
NoteRank(note) ==
    CASE note \in {"request_finished", "response_finished"} -> 1
      [] note = "postprocess" -> 2
      [] OTHER -> 3

NoteFlag(note) ==
    CASE note = "request_finished" -> IB_TX_FREQ_FINISHED
      [] note = "response_finished" -> IB_TX_FRES_FINISHED
      [] note = "postprocess" -> IB_TX_FPOSTPROCESS
      [] OTHER -> IB_TX_FLOGGING

Times(note) == Cardinality({i \in DOMAIN txn.notes : txn.notes[i] = note})

\* a write-complete event that had an effect
WriteCompleted == txn' # txn /\ txn'.closed = txn.closed

\* C40: a write-complete event issues the finished notification of its
\* direction, then postprocess, then logging, in that order, each one when
\* its flag is not yet set (postprocess and logging when the direction has
\* them) and none whose flag is set; none at all when the connection is
\* closed; as each notification sets its flag, postprocess and logging are
\* issued at most once in the transaction whatever events the two directions
\* get
C40_EndNotifications ==
    /\ [][WriteCompleted =>
            LET d == txn'.last
            IN /\ \A i \in DOMAIN Issued : NoteFlag(Issued[i]) \notin txn.flags
               /\ \A i, j \in DOMAIN Issued :
                     i < j => NoteRank(Issued[i]) < NoteRank(Issued[j])
               /\ \A i \in DOMAIN Issued :
                     NoteRank(Issued[i]) = 1 => Issued[i] = ib_notify_end(d)
               /\ txn.closed[d] => Issued = <<>>
               /\ ~txn.closed[d] =>
                     /\ FinishedFlag(d) \notin txn.flags
                           => Issued[1] = ib_notify_end(d)
                     /\ (txn.post[d] /\ IB_TX_FPOSTPROCESS \notin txn.flags)
                           => \E i \in DOMAIN Issued : Issued[i] = "postprocess"
                     /\ (txn.log[d] /\ IB_TX_FLOGGING \notin txn.flags)
                           => \E i \in DOMAIN Issued : Issued[i] = "logging"]_vars
    /\ [](Times("postprocess") <= 1 /\ Times("logging") <= 1)

\* both directions had their write-complete event, both with postprocess and
\* logging to notify: each was issued once, by the first of the two
C40_Witness ==
    /\ \A d \in Dirs : txn.shutdown[d] /\ txn.post[d] /\ txn.log[d]
    /\ txn.notes = <<"response_finished", "postprocess", "logging",
                     "request_finished">>

====
